---- MODULE Spec2Model ----
(***************************************************************************)
(* Selector observation in eli-utils (src/index.js): observeSelector,      *)
(* observeSelectors and the waiters they are built on, over a small DOM    *)
(* and the platform's MutationObserver / timer / promise-reaction queues.  *)
(*                                                                         *)
(* Platform conventions used throughout:                                   *)
(*  - a mutation appends one record to the queue of every connected        *)
(*    observer it reaches; a delivery hands the whole queue to the         *)
(*    observer's callback as one batch;                                    *)
(*  - disconnect() stops further records but does not take back records    *)
(*    already queued (the platform described in spec section 5).  A        *)
(*    platform whose disconnect() empties the queue behaves like this one  *)
(*    with the queued batch never delivered;                               *)
(*  - deliveries and promise reactions are microtasks: time does not pass  *)
(*    and no timer fires while one is pending;                             *)
(*  - the user callback is an input: for each record it returns, throws,   *)
(*    or calls the stop function it holds and returns.                     *)
(***************************************************************************)
EXTENDS Integers, Sequences, FiniteSets, TLC

\* ------------------------------------------------------------- bounds
NumElems == 3        \* elements the page can create
MaxMut == 3          \* DOM mutations in one behaviour of observeSelector
MaxMutAll == 4       \* DOM mutations in one behaviour of observeSelectors
TimeoutT == 2        \* the duration passed as options.timeout
MaxTime == TimeoutT + 2
MaxPollTime == 22    \* how long poll is left running
DbWait == 2          \* the wait passed to debounce
MaxDbCalls == 5      \* calls of the debounced wrapper in one behaviour
MaxDbTime == 4 * DbWait
ThWait == 2          \* the wait passed to throttle
MaxThCalls == 6      \* calls of the throttled wrapper in one behaviour
MaxThTime == 3 * ThWait
MaxPairCalls == 2    \* calls of each of two wrappers in one behaviour
MaxPairTime == DbWait + ThWait
MaxWuTime == 6       \* how long waitUntil is followed
MaxWaitTime == 2     \* how long waitForElement and waitForElements are followed
ScrollWait == 2      \* the 100 ms window of trackScrollDepth's throttle, in ticks
MaxScrollTop == 5    \* how far the page is scrolled, in quarters of its height at the call
MaxScrollEvents == 3 \* scroll events in one behaviour
MaxScrollTime == 2 * ScrollWait

\* ---------------------------------------------------------- the DOM
Elems == 1..NumElems
Body == 0                      \* document.body
Null == 0                      \* null: no element, no timer
Detached == NumElems + 1       \* parent of an element that is in no tree

VARIABLES
    parent,     \* parent[e]: Body, an element, or Detached
    matches,    \* elements whose own attributes satisfy the selector
    nRec,       \* mutation records produced so far
    everMatched,\* history: some element in the document has matched the selector
    now,        \* wall clock
    os,         \* observeSelector: the closure of one call
    wQ,         \* record queue of waitForElement's observer on document.body
    oQ,         \* record queue of observeSelector's observer on the element
    oss,        \* observeSelectors: the closure of one call
    rootQ,      \* record queue of observeSelectors' rootObserver
    watches,    \* the per-element MutationObservers observeSelectors has made
    lastCalls,  \* history: the invocations of the user callback made by the step
                \* that led to this state, in order
    everCalled, \* history: the user callback has been invoked
    toLog,      \* history: the time of every invocation of onTimeout
    pl,         \* poll: the closure of one call
    pollLog,    \* history: the time of every invocation of poll's callback
    db,         \* debounce: the closure of one wrapper
    dbLog,      \* history: the runs of func
    th,         \* throttle: the closure of one wrapper
    thLog,      \* history: the runs of the throttled func
    pair,       \* two wrappers made by separate calls, and the first one alone
    wu,         \* waitUntil: the closure of one call
    wf,         \* waitForElement: the closure of one call, with its record queue
    wfs,        \* waitForElements: the closure of one call, with its record queue
    sd          \* trackScrollDepth: the closure of one call

domVars == <<parent, matches, nRec, everMatched>>
osVars == <<os, wQ, oQ>>
ossVars == <<oss, rootQ, watches>>
\* The timer utilities, and everything the observers own.
utilVars == <<pl, pollLog, db, dbLog, th, thLog, pair, wu, sd>>
waitVars == <<wf, wfs>>
obsVars == <<domVars, osVars, ossVars, lastCalls, everCalled, toLog, waitVars>>
notPoll == <<db, dbLog, th, thLog, pair, wu, sd>>
notDebounce == <<pl, pollLog, th, thLog, pair, wu, sd>>
vars == <<parent, matches, nRec, everMatched, now, os, wQ, oQ, oss, rootQ, watches,
          lastCalls, everCalled, toLog, pl, pollLog, db, dbLog, th, thLog, pair, wu,
          wf, wfs, sd>>

\* Inclusive ancestors of node n; holds Body exactly when n is in the document.
RECURSIVE Anc(_, _)
Anc(par, n) ==
    IF n = Body THEN {Body}
    ELSE IF par[n] = Detached THEN {n}
    ELSE {n} \cup Anc(par, par[n])

InDoc(par, e) == Body \in Anc(par, e)

RECURSIVE SortedSeq(_)
SortedSeq(S) ==
    IF S = {} THEN <<>>
    ELSE LET m == CHOOSE x \in S : \A y \in S : x <= y
         IN <<m>> \o SortedSeq(S \ {m})

\* Document order below node p (siblings in creation order).
RECURSIVE Preorder(_, _)
RECURSIVE PreorderAll(_, _)
Preorder(par, p) == PreorderAll(par, SortedSeq({e \in Elems : par[e] = p}))
PreorderAll(par, cs) ==
    IF cs = <<>> THEN <<>>
    ELSE <<Head(cs)>> \o Preorder(par, Head(cs)) \o PreorderAll(par, Tail(cs))

\* context.querySelectorAll(selector): the matching descendants of root, in
\* document order.
RECURSIVE Filter(_, _)
Filter(seq, m) ==
    IF seq = <<>> THEN <<>>
    ELSE (IF Head(seq) \in m THEN <<Head(seq)>> ELSE <<>>) \o Filter(Tail(seq), m)

QuerySelectorAll(par, m, root) == Filter(Preorder(par, root), m)

\* document.querySelector(selector): the first match or null.
QuerySelector(par, m) ==
    LET all == QuerySelectorAll(par, m, Body)
    IN IF all = <<>> THEN Null ELSE Head(all)

\* ------------------------------------------------ observer options
MutationNames ==
    {"childList", "attributes", "characterData", "subtree",
     "attributeOldValue", "characterDataOldValue"}

DefaultMutations == {"childList", "attributes", "subtree"}

\* The mutations lists a call is made with.
MutationLists == {DefaultMutations, {"attributes"}}

ObserverOptions(mutations) ==
    [childList             |-> "childList" \in mutations,
     attributes            |-> "attributes" \in mutations,
     characterData         |-> "characterData" \in mutations,
     subtree               |-> "subtree" \in mutations,
     attributeOldValue     |-> "attributeOldValue" \in mutations,
     characterDataOldValue |-> "characterDataOldValue" \in mutations]

\* The options object of a call: mutations absent or a list of names,
\* timeout, once, and attributeFilter absent ("none"), an array ("array") or
\* some other truthy value ("string").
NoOptions ==
    [hasMutations |-> FALSE, mutations |-> {}, timeout |-> Null, once |-> FALSE,
     filter |-> "none"]

FilterKinds == {"none", "array", "string"}

\* observerOptions with attributes always enabled.
observerOptionsAttributesOn(options) ==
    LET mutations == IF options.hasMutations THEN options.mutations
                     ELSE DefaultMutations
    IN [f \in MutationNames \cup {"attributeFilter"} |->
           IF f = "attributeFilter" THEN options.filter = "array"
           ELSE IF f = "attributes" THEN TRUE
           ELSE f \in mutations]

\* The observerOptions object built from the options of a call; its
\* attributeFilter field says whether the property was set.
observerOptions(options) ==
    LET mutations == IF options.hasMutations THEN options.mutations
                     ELSE DefaultMutations
    IN [f \in MutationNames \cup {"attributeFilter"} |->
           IF f = "attributeFilter" THEN options.filter = "array"
           ELSE ObserverOptions(mutations)[f]]

\* The options of the watches on document.body.
BodyOptions == ObserverOptions({"childList", "subtree"})

\* ------------------------------------------------ mutation records
NewRecord(type, target) ==
    [id |-> nRec + 1, type |-> type, target |-> target, anc |-> Anc(parent, target)]

\* Does the record reach an observer registered on node with options opts?
Reaches(rec, node, opts) ==
    /\ opts[rec.type]
    /\ \/ rec.target = node
       \/ opts.subtree /\ node \in rec.anc

RecIds(q) == [i \in 1..Len(q) |-> q[i].id]

\* What the user callback does with one record.
CbOutcomes == {"ok", "stop", "throw"}

\* A batch handed to forEach(mutation => callback(el, mutation, obs)): the
\* callback runs for the records up to and including the first one it throws
\* on; the exception leaves forEach.
Executed(batch, script) ==
    IF \E i \in 1..Len(batch) : script[i] = "throw"
    THEN CHOOSE i \in 1..Len(batch) :
            /\ script[i] = "throw"
            /\ \A j \in 1..(i - 1) : script[j] # "throw"
    ELSE Len(batch)

StopCalled(batch, script) ==
    \E i \in 1..Executed(batch, script) : script[i] = "stop"

\* Invocations handing the callback the target of each record.
InvocationsOfTarget(batch, script, el, w, stopped) ==
    [i \in 1..Executed(batch, script) |->
        [el        |-> batch[i].target,
         rec       |-> batch[i].id,
         target    |-> batch[i].target,
         anc       |-> batch[i].anc,
         w         |-> w,
         first     |-> batch[1].id,
         idx       |-> i,
         n         |-> Len(batch),
         afterStop |-> stopped \/ \E j \in 1..(i - 1) : script[j] = "stop",
         threw     |-> script[i] = "throw"]]

Invocations(batch, script, el, w, stopped) ==
    [i \in 1..Executed(batch, script) |->
        [el        |-> el,
         rec       |-> batch[i].id,
         target    |-> batch[i].target,
         anc       |-> batch[i].anc,
         w         |-> w,
         first     |-> batch[1].id,
         idx       |-> i,
         n         |-> Len(batch),
         afterStop |-> stopped \/ \E j \in 1..(i - 1) : script[j] = "stop",
         threw     |-> script[i] = "throw"]]

\* A step that invokes the user callback, and one that does not.
Called(invocations) ==
    /\ lastCalls' = invocations
    /\ everCalled' = TRUE

NoCalls ==
    /\ lastCalls' = <<>>
    /\ UNCHANGED everCalled

\* ------------------------------------------------- waitForElement
\* observeSelector binds one element: one more is enough to have another
\* element match, precede it in the document or contain it.
OSElems == 1..(NumElems - 1)

\* The promise of waitForElement(selector); sel is an element handle, or Null
\* for a selector string.
WaitForElement(par, m, sel) ==
    IF sel # Null THEN [state |-> "resolved", el |-> sel]
    ELSE IF QuerySelector(par, m) # Null
         THEN [state |-> "resolved", el |-> QuerySelector(par, m)]
         ELSE [state |-> "pending", el |-> Null]

\* ------------------------------------------------ observeSelector
OSIdle ==
    [called     |-> FALSE,
     opts       |-> ObserverOptions(DefaultMutations),
     timeout    |-> Null,
     callTime   |-> 0,
     isStopped  |-> FALSE,
     observer   |-> FALSE,     \* observer # null: created and connected
     el         |-> Null,      \* the element startObserving bound
     timeoutId  |-> Null,      \* null, or the deadline of the pending timer
     wfe        |-> "none",    \* the waitForElement promise
     wfeEl      |-> Null,
     nObservers |-> 0,         \* history: MutationObservers startObserving made
     nTimers    |-> 0,         \* history: timers startObserving armed
     stopEarly  |-> FALSE,     \* history: stop was called before any watch started
     foundAt    |-> 0,         \* history: the mutations made when the wait resolved
     given      |-> NoOptions] \* history: the options object the caller passed

startObserving(s, el, t) ==
    IF el = Null \/ s.isStopped THEN s
    ELSE [s EXCEPT !.observer = TRUE,
                   !.el = el,
                   !.nObservers = @ + 1,
                   !.timeoutId = IF s.timeout # Null THEN t + s.timeout ELSE @,
                   !.nTimers = IF s.timeout # Null THEN @ + 1 ELSE @]

\* stopObserving that flips isStopped.
stopObservingToggle(s) ==
    [s EXCEPT !.isStopped = ~@,
              !.observer = FALSE,
              !.timeoutId = Null,
              !.stopEarly = @ \/ (s.nObservers = 0)]

\* stopObserving without clearTimeout.
stopObservingKeepTimer(s) ==
    [s EXCEPT !.isStopped = TRUE,
              !.observer = FALSE,
              !.stopEarly = @ \/ (s.nObservers = 0)]

stopObserving(s) ==
    [s EXCEPT !.isStopped = TRUE,
              !.observer = FALSE,
              !.timeoutId = Null,
              !.stopEarly = @ \/ (s.nObservers = 0)]

\* ----------------------------------------------- observeSelectors
OSSIdle ==
    [called        |-> FALSE,
     opts          |-> ObserverOptions(DefaultMutations),
     timeout       |-> Null,
     timer         |-> FALSE,   \* the timer armed with setTimeout is pending
     rootConnected |-> FALSE,   \* rootObserver is observing document.body
     observers     |-> <<>>,    \* the Map element -> index of its observer in watches
     cancelled     |-> FALSE,   \* history: stopObserving has run
     initial       |-> 0,       \* history: elements matched at the call
     growths       |-> 0,       \* history: rootObserver batches that added a watch
     rematched     |-> FALSE,   \* history: a query found an element already tracked
     given         |-> NoOptions] \* history: the options object the caller passed

Tracked(st) == DOMAIN st.observers

\* observeElement without the observers.has(element) test.
observeElementAgain(st, element) ==
    [st EXCEPT
        !.rematched = @ \/ element \in Tracked(st),
        !.observers = [e \in Tracked(st) \cup {element} |->
                         IF e = element THEN Len(st.watches) + 1 ELSE st.observers[e]],
        !.watches = Append(st.watches, [el |-> element, connected |-> TRUE, q |-> <<>>])]

\* st is the pair [observers, watches], with the history flag rematched.
observeElement(st, element) ==
    IF element \in Tracked(st) THEN [st EXCEPT !.rematched = TRUE]
    ELSE [st EXCEPT
            !.observers = [e \in Tracked(st) \cup {element} |->
                             IF e = element THEN Len(st.watches) + 1 ELSE st.observers[e]],
            !.watches = Append(st.watches, [el |-> element, connected |-> TRUE, q |-> <<>>])]

RECURSIVE observeEach(_, _)
observeEach(st, elements) ==
    IF elements = <<>> THEN st
    ELSE observeEach(observeElement(st, Head(elements)), Tail(elements))

\* findAndObserveElements with querySelector in place of querySelectorAll.
findAndObserveFirst(st, par, m) ==
    IF QuerySelector(par, m) = Null THEN st
    ELSE observeElement(st, QuerySelector(par, m))

\* findAndObserveElements that first forgets the tracked elements the query
\* no longer returns.
findAndPruneElements(st, par, m) ==
    LET found == QuerySelectorAll(par, m, Body)
        kept == {e \in Tracked(st) : \E i \in 1..Len(found) : found[i] = e}
    IN observeEach([st EXCEPT !.observers = [e \in kept |-> st.observers[e]]], found)

findAndObserveElements(st, par, m) ==
    observeEach(st, QuerySelectorAll(par, m, Body))

\* stopObserving of observeSelectors without the disconnect of the
\* per-element observers.
stopObservingRootOnly(s, ws) ==
    [closure |-> [s EXCEPT !.rootConnected = FALSE,
                           !.observers = <<>>,
                           !.cancelled = TRUE],
     watches |-> ws]

\* stopObserving of observeSelectors, on the closure s and the watches ws.
stopObservingAll(s, ws) ==
    [closure |-> [s EXCEPT !.rootConnected = FALSE,
                           !.observers = <<>>,
                           !.cancelled = TRUE],
     watches |-> [i \in 1..Len(ws) |->
                    IF \E e \in Tracked(s) : s.observers[e] = i
                    THEN [ws[i] EXCEPT !.connected = FALSE]
                    ELSE ws[i]]]

\* ------------------------------------------------------------ poll
\* The delays poll is called with.
PollDelays == {2, 5}

PollIdle ==
    [called      |-> FALSE,
     delay       |-> 0,
     callTime    |-> 0,
     intervalId  |-> Null,    \* null, or the time the interval timer fires next
     cancelled   |-> FALSE,   \* history: the cancel function has been invoked
     dueAtCancel |-> FALSE]   \* history: an invocation was due when it was

setInterval(p, delay, t) == [p EXCEPT !.intervalId = t + delay]

\* clearInterval that spares an invocation which is already due.
clearIntervalLate(p, t) ==
    IF p.intervalId # Null /\ p.intervalId <= t THEN p
    ELSE [p EXCEPT !.intervalId = Null]

clearInterval(p, t) == [p EXCEPT !.intervalId = Null]

\* The function poll returns, invoked at time t.
cancelPoll(p, t) ==
    [clearInterval(p, t) EXCEPT
        !.cancelled = TRUE,
        !.dueAtCancel = @ \/ (p.intervalId # Null /\ p.intervalId <= t)]

\* -------------------------------------------------------- debounce
DbIdle ==
    [made      |-> FALSE,
     wait      |-> 0,
     immediate |-> FALSE,
     timeout   |-> Null,    \* null/undefined, or the deadline of the pending timer
     args      |-> Null,    \* the arguments the pending `later` closed over
     timers    |-> {},      \* the platform's pending timers armed by the wrapper
     calls     |-> <<>>]    \* history: the time of every call of the wrapper

\* The timer the variable timeout of the closure d refers to, and what
\* clearTimeout(timeout) leaves pending.
DbTimer(deadline, args) == [deadline |-> deadline, args |-> args]
clearTimeoutDb(d) == d.timers \ {DbTimer(d.timeout, d.args)}

\* -------------------------------------------------------- throttle
ThIdle ==
    [made       |-> FALSE,
     wait       |-> 0,
     inThrottle |-> FALSE,   \* undefined or false / true
     timer      |-> Null,    \* null, or the deadline of the pending setTimeout
     calls      |-> <<>>,    \* history: the time of every call of the wrapper
     thrown     |-> {}]      \* history: the calls that let an exception of func escape

\* ----------------------------- two wrappers made by separate calls
\* Wrappers A and B are made by two calls of debounce or throttle; Solo is
\* wrapper A in a run in which B is never called.
PairW == {"A", "B", "Solo"}
PairKinds == {"debounce", "debounceImmediate", "throttle"}

PairWait(kind) == IF kind = "throttle" THEN ThWait ELSE DbWait

PairIdle ==
    [made       |-> FALSE,
     kind       |-> [w \in PairW |-> "debounce"],
     timeout    |-> [w \in PairW |-> Null],   \* `let timeout` of each closure: a timer id
     inThrottle |-> [w \in PairW |-> FALSE],  \* `let inThrottle` of each closure
     timers     |-> {},                       \* the pending setTimeout timers
     nextId     |-> 1,
     calls      |-> [w \in PairW |-> 0],      \* history: calls made of each wrapper
     runs       |-> [w \in PairW |-> <<>>]]   \* history: the runs of each func

\* ------------------------------------------------------- waitUntil
\* What one call of condition() does: returns falsy, returns truthy, or
\* throws one of two errors.
Errors == {"E1", "E2"}
ConditionOutcomes == {"false", "true"} \cup Errors

\* The intervals waitUntil is called with.
WuIntervals == {1, 2, 3}

WUIdle ==
    [called   |-> FALSE,
     interval |-> 0,
     state    |-> "idle",    \* the promise: pending, resolved or rejected
     error    |-> Null,      \* the reason of the rejection
     timer    |-> Null,      \* null, or the deadline of the pending setTimeout
     pending  |-> <<>>,      \* the deadlines of the platform's pending timers of this wait
     nTimers  |-> 0,         \* history: calls of setTimeout
     checks   |-> <<>>,      \* history: every call of condition: when, and its outcome
     nResolve |-> 0,         \* history: calls of resolve
     nReject  |-> 0]         \* history: calls of reject

\* ------------------------- waitForElement, waitForElements alone
WFIdle ==
    [called    |-> FALSE,
     sel       |-> Null,     \* an element handle, or null for a selector string
     state     |-> "idle",   \* the promise: pending or resolved
     el        |-> Null,     \* the element it resolved with
     connected |-> FALSE,    \* its MutationObserver is observing document.body
     q         |-> <<>>,     \* the record queue of that observer
     atCall    |-> FALSE,    \* history: a match existed at the call
     nObserve  |-> 0,        \* history: observe() calls
     nResolve  |-> 0,        \* history: resolve() calls
     batches   |-> 0,        \* history: batches delivered to the observer
     seen      |-> 0,        \* history: mutations made when it resolved
     nTimers   |-> 0]        \* history: setTimeout calls

WFSIdle ==
    [called    |-> FALSE,
     root      |-> Body,     \* context: Body for document, or an element
     state     |-> "idle",
     els       |-> <<>>,     \* the NodeList it resolved with
     connected |-> FALSE,
     q         |-> <<>>,
     atCall    |-> FALSE,
     nObserve  |-> 0,
     nResolve  |-> 0,
     batches   |-> 0,
     seen      |-> 0,
     nTimers   |-> 0]

\* trackScrollDepth: the closure of one call.
SDIdle ==
    [called     |-> FALSE,
     thresholds |-> <<>>,
     maxScroll  |-> 0,       \* scrollHeight - innerHeight, taken at the call
     triggered  |-> {},      \* the Set of thresholds reported
     inThrottle |-> FALSE,   \* of the throttle wrapper around the handler
     timer      |-> Null,    \* null, or the deadline of the throttle's timer
     listening  |-> FALSE,   \* handleScroll is a listener of window's scroll event
     stopped    |-> FALSE,   \* history: the returned function has been invoked
     events     |-> 0,       \* history: scroll events the page has had
     threw      |-> FALSE,   \* history: the handler let an exception escape at the latest event
     log        |-> <<>>]    \* history: the invocations of callback

Init ==
    /\ th = ThIdle
    /\ thLog = <<>>
    /\ pair = PairIdle
    /\ wu = WUIdle
    /\ wf = WFIdle
    /\ wfs = WFSIdle
    /\ sd = SDIdle
    /\ pl = PollIdle
    /\ pollLog = <<>>
    /\ db = DbIdle
    /\ dbLog = <<>>
    /\ parent = [e \in Elems |-> Detached]
    /\ matches = Elems
    /\ nRec = 0
    /\ everMatched = FALSE
    /\ now = 0
    /\ os = OSIdle
    /\ wQ = <<>>
    /\ oQ = <<>>
    /\ oss = OSSIdle
    /\ rootQ = <<>>
    /\ watches = <<>>
    /\ lastCalls = <<>>
    /\ everCalled = FALSE
    /\ toLog = <<>>

\* Every connected observer the record reaches queues it.
Notify(rec) ==
    /\ wQ' = IF os.wfe = "pending" /\ Reaches(rec, Body, BodyOptions)
             THEN Append(wQ, rec) ELSE wQ
    /\ oQ' = IF os.observer /\ Reaches(rec, os.el, os.opts)
             THEN Append(oQ, rec) ELSE oQ
    /\ rootQ' = IF oss.rootConnected /\ Reaches(rec, Body, BodyOptions)
                THEN Append(rootQ, rec) ELSE rootQ
    /\ watches' = [i \in 1..Len(watches) |->
                     IF watches[i].connected /\ Reaches(rec, watches[i].el, oss.opts)
                     THEN [watches[i] EXCEPT !.q = Append(@, rec)]
                     ELSE watches[i]]
    /\ wf' = IF wf.connected /\ Reaches(rec, Body, BodyOptions)
             THEN [wf EXCEPT !.q = Append(@, rec)] ELSE wf
    /\ wfs' = IF wfs.connected /\ Reaches(rec, wfs.root, BodyOptions)
              THEN [wfs EXCEPT !.q = Append(@, rec)] ELSE wfs

\* ------------------------------------------- the page's mutations
\* Bookkeeping of a mutation: it is counted, and whether the selector has ever
\* matched an element of the document is remembered.
Produced(par, m) ==
    /\ nRec' = nRec + 1
    /\ everMatched' = (everMatched \/ QuerySelector(par, m) # Null)

InsertNode(e, p, max) ==
    /\ nRec < max
    /\ parent[e] = Detached
    /\ p < e
    /\ parent' = [parent EXCEPT ![e] = p]
    /\ Notify(NewRecord("childList", p))
    /\ Produced([parent EXCEPT ![e] = p], matches)
    /\ NoCalls
    /\ UNCHANGED <<matches, now, os, oss, toLog>>
    /\ UNCHANGED utilVars

RemoveNode(e, max) ==
    /\ nRec < max
    /\ parent[e] # Detached
    /\ parent' = [parent EXCEPT ![e] = Detached]
    /\ Notify(NewRecord("childList", parent[e]))
    /\ Produced([parent EXCEPT ![e] = Detached], matches)
    /\ NoCalls
    /\ UNCHANGED <<matches, now, os, oss, toLog>>
    /\ UNCHANGED utilVars

SetAttribute(e, m, max) ==
    /\ nRec < max
    /\ matches' = IF m THEN matches \cup {e} ELSE matches \ {e}
    /\ Notify(NewRecord("attributes", e))
    /\ Produced(parent, IF m THEN matches \cup {e} ELSE matches \ {e})
    /\ NoCalls
    /\ UNCHANGED <<parent, now, os, oss, toLog>>
    /\ UNCHANGED utilVars

\* The page's scripts, acting on the elements of E, at most max times.  An
\* element goes under the body or under an element created before it.
Mutate(E, max) ==
    \/ \E e \in E, p \in E \cup {Body} : InsertNode(e, p, max)
    \/ \E e \in E : RemoveNode(e, max)
    \/ \E e \in E, m \in BOOLEAN : SetAttribute(e, m, max)

\* ------------------------------------- observeSelector: the steps
ObserveSelector(sel, mutations, timeout) ==
    /\ ~os.called
    /\ LET s0 == [os EXCEPT !.called = TRUE,
                            !.opts = ObserverOptions(mutations),
                            !.timeout = timeout,
                            !.callTime = now]
           element == IF sel = Null THEN QuerySelector(parent, matches) ELSE sel
           wait == WaitForElement(parent, matches, sel)
       IN os' = IF element # Null
                THEN startObserving(s0, element, now)
                ELSE IF sel = Null
                     THEN [s0 EXCEPT !.wfe = wait.state, !.wfeEl = wait.el]
                     ELSE s0
    /\ NoCalls
    /\ UNCHANGED <<domVars, now, wQ, oQ, ossVars, toLog>>
    /\ UNCHANGED <<utilVars, waitVars>>

\* The caller invokes the function observeSelector returned.
StopOS ==
    /\ os.called
    /\ os' = stopObserving(os)
    /\ NoCalls
    /\ UNCHANGED <<domVars, now, wQ, oQ, ossVars, toLog>>
    /\ UNCHANGED <<utilVars, waitVars>>

\* waitForElement's observer callback.
DeliverWait ==
    /\ wQ # <<>>
    /\ wQ' = <<>>
    /\ LET element == QuerySelector(parent, matches)
       IN os' = IF element # Null /\ os.wfe = "pending"
                THEN [os EXCEPT !.wfe = "resolved", !.wfeEl = element, !.foundAt = nRec]
                ELSE os
    /\ NoCalls
    /\ UNCHANGED <<domVars, now, oQ, ossVars, toLog>>
    /\ UNCHANGED <<utilVars, waitVars>>

\* ThenStart as it would be if nothing on the way to the watch consulted
\* isStopped.
ThenStartUnchecked ==
    /\ os.wfe = "resolved"
    /\ os' = [startObserving([os EXCEPT !.isStopped = FALSE], os.wfeEl, now)
                EXCEPT !.isStopped = os.isStopped, !.wfe = "done"]
    /\ NoCalls
    /\ UNCHANGED <<domVars, now, wQ, oQ, ossVars, toLog>>
    /\ UNCHANGED <<utilVars, waitVars>>

\* The reaction observeSelector attached with .then().
ThenStart ==
    /\ os.wfe = "resolved"
    /\ os' = [(IF ~os.isStopped THEN startObserving(os, os.wfeEl, now) ELSE os)
                EXCEPT !.wfe = "done"]
    /\ NoCalls
    /\ UNCHANGED <<domVars, now, wQ, oQ, ossVars, toLog>>
    /\ UNCHANGED <<utilVars, waitVars>>

\* The callback of the MutationObserver made by startObserving.
DeliverOS(script) ==
    /\ oQ # <<>>
    /\ oQ' = <<>>
    /\ IF os.isStopped
       THEN UNCHANGED os /\ NoCalls
       ELSE /\ Called(Invocations(oQ, script, os.el, 0, FALSE))
            /\ os' = IF StopCalled(oQ, script) THEN stopObserving(os) ELSE os
    /\ UNCHANGED <<domVars, now, wQ, ossVars, toLog>>
    /\ UNCHANGED <<utilVars, waitVars>>

MicrotasksOS == wQ # <<>> \/ oQ # <<>> \/ os.wfe = "resolved"

\* The timer armed by startObserving fires.
TimeoutOS ==
    /\ os.timeoutId # Null
    /\ os.timeoutId <= now
    /\ ~MicrotasksOS
    /\ os' = stopObserving(os)
    /\ toLog' = Append(toLog, now)
    /\ NoCalls
    /\ UNCHANGED <<domVars, now, wQ, oQ, ossVars>>
    /\ UNCHANGED <<utilVars, waitVars>>

\* Time is counted from the call.
TickOS ==
    /\ os.called
    /\ now < MaxTime
    /\ ~MicrotasksOS
    /\ os.timeoutId = Null \/ os.timeoutId > now
    /\ now' = now + 1
    /\ NoCalls
    /\ UNCHANGED <<domVars, osVars, ossVars, toLog>>
    /\ UNCHANGED <<utilVars, waitVars>>

NextOS ==
    \/ Mutate(OSElems, MaxMut)
    \/ \E sel \in OSElems \cup {Null}, ms \in MutationLists, t \in {Null, TimeoutT} :
          ObserveSelector(sel, ms, t)
    \/ StopOS
    \/ DeliverWait
    \/ ThenStart
    \/ \E script \in [1..Len(oQ) -> CbOutcomes] : DeliverOS(script)
    \/ TimeoutOS
    \/ TickOS

SpecOS == Init /\ [][NextOS]_vars

\* observeSelector followed through one more change of the page.
NextRebind ==
    \/ Mutate(OSElems, MaxMutAll)
    \/ \E sel \in OSElems \cup {Null}, ms \in MutationLists, t \in {Null, TimeoutT} :
          ObserveSelector(sel, ms, t)
    \/ StopOS
    \/ DeliverWait
    \/ ThenStart
    \/ \E script \in [1..Len(oQ) -> CbOutcomes] : DeliverOS(script)
    \/ TimeoutOS
    \/ TickOS

SpecRebind == Init /\ [][NextRebind]_vars

\* observeSelector called with an options object; the destructuring takes
\* mutations, timeout, onTimeout and attributeFilter from it and nothing else.
ObserveSelectorOptions(sel, options) ==
    /\ ~os.called
    /\ LET s0 == [os EXCEPT !.called = TRUE,
                            !.opts = observerOptions(options),
                            !.timeout = options.timeout,
                            !.callTime = now,
                            !.given = options]
           element == IF sel = Null THEN QuerySelector(parent, matches) ELSE sel
           wait == WaitForElement(parent, matches, sel)
       IN os' = IF element # Null
                THEN startObserving(s0, element, now)
                ELSE IF sel = Null
                     THEN [s0 EXCEPT !.wfe = wait.state, !.wfeEl = wait.el]
                     ELSE s0
    /\ NoCalls
    /\ UNCHANGED <<domVars, now, wQ, oQ, ossVars, toLog>>
    /\ UNCHANGED <<utilVars, waitVars>>

\* The options objects with once, a mutations list and a timeout.
OnceOptions ==
    [hasMutations : {TRUE}, mutations : MutationLists, timeout : {Null, TimeoutT},
     once : BOOLEAN, filter : {"none"}]

NextOnce ==
    \/ Mutate(OSElems, MaxMut)
    \/ \E sel \in OSElems \cup {Null}, options \in OnceOptions :
          ObserveSelectorOptions(sel, options)
    \/ StopOS
    \/ DeliverWait
    \/ ThenStart
    \/ \E script \in [1..Len(oQ) -> CbOutcomes] : DeliverOS(script)
    \/ TimeoutOS
    \/ TickOS

SpecOnce == Init /\ [][NextOnce]_vars

\* ------------------------------------ observeSelectors: the steps
ObserveSelectors(mutations, timeout) ==
    /\ ~oss.called
    /\ LET st == findAndObserveElements(
                    [observers |-> <<>>, watches |-> <<>>, rematched |-> FALSE],
                    parent, matches)
       IN /\ oss' = [oss EXCEPT !.called = TRUE,
                                !.opts = ObserverOptions(mutations),
                                !.timeout = timeout,
                                !.timer = (timeout # Null),
                                !.rootConnected = TRUE,
                                !.observers = st.observers,
                                !.initial = Len(st.watches)]
          /\ watches' = st.watches
    /\ NoCalls
    /\ UNCHANGED <<domVars, now, osVars, rootQ, toLog>>
    /\ UNCHANGED <<utilVars, waitVars>>

\* The caller invokes the function observeSelectors returned.
StopOSS ==
    /\ oss.called
    /\ LET r == stopObservingAll(oss, watches)
       IN oss' = r.closure /\ watches' = r.watches
    /\ NoCalls
    /\ UNCHANGED <<domVars, now, osVars, rootQ, toLog>>
    /\ UNCHANGED <<utilVars, waitVars>>

\* rootObserver's callback.
DeliverRoot ==
    /\ rootQ # <<>>
    /\ rootQ' = <<>>
    /\ LET st == findAndObserveElements(
                    [observers |-> oss.observers, watches |-> watches,
                     rematched |-> oss.rematched],
                    parent, matches)
       IN /\ oss' = [oss EXCEPT !.observers = st.observers,
                                !.rematched = st.rematched,
                                !.growths = IF Len(st.watches) > Len(watches)
                                            THEN @ + 1 ELSE @]
          /\ watches' = st.watches
    /\ NoCalls
    /\ UNCHANGED <<domVars, now, osVars, toLog>>
    /\ UNCHANGED <<utilVars, waitVars>>

\* The callback of the per-element observer watches[i].
DeliverElement(i, script) ==
    /\ watches[i].q # <<>>
    /\ LET batch == watches[i].q
           taken == [watches EXCEPT ![i].q = <<>>]
           r == stopObservingAll(oss, taken)
       IN /\ Called(Invocations(batch, script, watches[i].el, i, oss.cancelled))
          /\ IF StopCalled(batch, script)
             THEN oss' = r.closure /\ watches' = r.watches
             ELSE oss' = oss /\ watches' = taken
    /\ UNCHANGED <<domVars, now, osVars, rootQ, toLog>>
    /\ UNCHANGED <<utilVars, waitVars>>

MicrotasksOSS == rootQ # <<>> \/ \E i \in 1..Len(watches) : watches[i].q # <<>>

\* The timer callback of observeSelectors without its stopObserving() call.
TimeoutOSSNoStop ==
    /\ oss.timer
    /\ ~MicrotasksOSS
    /\ oss' = [oss EXCEPT !.timer = FALSE]
    /\ toLog' = Append(toLog, now)
    /\ NoCalls
    /\ UNCHANGED <<domVars, now, osVars, rootQ, watches>>
    /\ UNCHANGED <<utilVars, waitVars>>

\* The timer armed by observeSelectors fires, whenever its duration is over.
TimeoutOSS ==
    /\ oss.timer
    /\ ~MicrotasksOSS
    /\ LET r == stopObservingAll(oss, watches)
       IN oss' = [r.closure EXCEPT !.timer = FALSE]
          /\ watches' = r.watches
    /\ toLog' = Append(toLog, now)
    /\ NoCalls
    /\ UNCHANGED <<domVars, now, osVars, rootQ>>
    /\ UNCHANGED <<utilVars, waitVars>>

NextOSS ==
    \/ Mutate(Elems, MaxMutAll)
    \/ \E ms \in MutationLists, t \in {Null, TimeoutT} : ObserveSelectors(ms, t)
    \/ StopOSS
    \/ DeliverRoot
    \/ \E i \in 1..Len(watches) :
          \E script \in [1..Len(watches[i].q) -> CbOutcomes] : DeliverElement(i, script)
    \/ TimeoutOSS

SpecOSS == Init /\ [][NextOSS]_vars

\* observeSelectors called with an options object.
ObserveSelectorsOptions(options) ==
    /\ ~oss.called
    /\ LET st == findAndObserveElements(
                    [observers |-> <<>>, watches |-> <<>>, rematched |-> FALSE],
                    parent, matches)
       IN /\ oss' = [oss EXCEPT !.called = TRUE,
                                !.opts = observerOptions(options),
                                !.timeout = options.timeout,
                                !.timer = (options.timeout # Null),
                                !.rootConnected = TRUE,
                                !.observers = st.observers,
                                !.initial = Len(st.watches),
                                !.given = options]
          /\ watches' = st.watches
    /\ NoCalls
    /\ UNCHANGED <<domVars, now, osVars, rootQ, toLog>>
    /\ UNCHANGED <<utilVars, waitVars>>

\* The options objects with mutations absent or any list of the six names,
\* and every kind of attributeFilter.
AllOptions ==
    [hasMutations : {FALSE}, mutations : {{}}, timeout : {Null}, once : {FALSE},
     filter : FilterKinds]
    \cup [hasMutations : {TRUE}, mutations : SUBSET MutationNames, timeout : {Null},
          once : {FALSE}, filter : FilterKinds]

NextOptions ==
    \/ \E sel \in OSElems \cup {Null}, options \in AllOptions :
          ObserveSelectorOptions(sel, options)
    \/ \E options \in AllOptions : ObserveSelectorsOptions(options)

SpecOptions == Init /\ [][NextOptions]_vars

\* -------------------------------------------------- poll: the steps
\* poll that also invokes the callback at the call.
PollLeading(delay) ==
    /\ ~pl.called
    /\ pl' = setInterval([pl EXCEPT !.called = TRUE, !.delay = delay, !.callTime = now],
                         delay, now)
    /\ pollLog' = Append(pollLog, now)
    /\ UNCHANGED <<obsVars, now, notPoll>>

Poll(delay) ==
    /\ ~pl.called
    /\ pl' = setInterval([pl EXCEPT !.called = TRUE, !.delay = delay, !.callTime = now],
                         delay, now)
    /\ UNCHANGED <<obsVars, now, pollLog, notPoll>>

\* The caller invokes the function poll returned.
CancelPoll ==
    /\ pl.called
    /\ pl' = cancelPoll(pl, now)
    /\ UNCHANGED <<obsVars, now, pollLog, notPoll>>

\* The interval timer fires: callback() runs, and returns, throws, or invokes
\* the cancel function; the platform has re-armed the timer before.
IntervalFires(outcome) ==
    /\ pl.intervalId # Null
    /\ pl.intervalId <= now
    /\ pollLog' = Append(pollLog, now)
    /\ LET p == [pl EXCEPT !.intervalId = @ + pl.delay]
       IN pl' = IF outcome = "stop" THEN cancelPoll(p, now) ELSE p
    /\ UNCHANGED <<obsVars, now, notPoll>>

TickPoll ==
    /\ pl.called
    /\ now < MaxPollTime
    /\ pl.intervalId = Null \/ pl.intervalId > now
    /\ now' = now + 1
    /\ UNCHANGED <<obsVars, utilVars>>

NextPoll ==
    \/ \E delay \in PollDelays : Poll(delay)
    \/ CancelPoll
    \/ \E outcome \in CbOutcomes : IntervalFires(outcome)
    \/ TickPoll

SpecPoll == Init /\ [][NextPoll]_vars

\* ---------------------------------------------- debounce: the steps
\* debounce(func, wait, immediate) returns the wrapper.
Debounce(immediate) ==
    /\ ~db.made
    /\ db' = [db EXCEPT !.made = TRUE, !.wait = DbWait, !.immediate = immediate]
    /\ UNCHANGED <<obsVars, now, notDebounce, dbLog>>

\* A run of func: when, with the arguments of which call (calls are numbered
\* and pass their number), and on which edge.
FuncRun(arg, leading) == [t |-> now, arg |-> arg, leading |-> leading]

\* The wrapper without clearTimeout and without a new timer while one is
\* pending.
executedFunctionNoReset ==
    /\ db.made
    /\ Len(db.calls) < MaxDbCalls
    /\ LET arg == Len(db.calls) + 1
           callNow == db.immediate /\ db.timeout = Null
       IN /\ db' = [db EXCEPT !.timeout = IF @ = Null THEN now + db.wait ELSE @,
                              !.args = IF db.timeout = Null THEN arg ELSE @,
                              !.timers = IF db.timeout = Null
                                         THEN @ \cup {DbTimer(now + db.wait, arg)}
                                         ELSE @,
                              !.calls = Append(@, now)]
          /\ dbLog' = IF callNow THEN Append(dbLog, FuncRun(arg, TRUE)) ELSE dbLog
    /\ UNCHANGED <<obsVars, now, notDebounce>>

\* The wrapper with `later` keeping the arguments of the first call of the
\* burst.
executedFunctionFirstArgs ==
    /\ db.made
    /\ Len(db.calls) < MaxDbCalls
    /\ LET arg == Len(db.calls) + 1
           callNow == db.immediate /\ db.timeout = Null
       IN /\ db' = [db EXCEPT !.timeout = now + db.wait,
                              !.args = IF db.timeout = Null THEN arg ELSE @,
                              !.timers = clearTimeoutDb(db) \cup
                                  {DbTimer(now + db.wait,
                                           IF db.timeout = Null THEN arg ELSE db.args)},
                              !.calls = Append(@, now)]
          /\ dbLog' = IF callNow THEN Append(dbLog, FuncRun(arg, TRUE)) ELSE dbLog
    /\ UNCHANGED <<obsVars, now, notDebounce>>

\* The wrapper without clearTimeout.
executedFunctionNoClear ==
    /\ db.made
    /\ Len(db.calls) < MaxDbCalls
    /\ LET arg == Len(db.calls) + 1
           callNow == db.immediate /\ db.timeout = Null
       IN /\ db' = [db EXCEPT !.timeout = now + db.wait,
                              !.args = arg,
                              !.timers = @ \cup {DbTimer(now + db.wait, arg)},
                              !.calls = Append(@, now)]
          /\ dbLog' = IF callNow THEN Append(dbLog, FuncRun(arg, TRUE)) ELSE dbLog
    /\ UNCHANGED <<obsVars, now, notDebounce>>

\* A call of the wrapper.
executedFunction ==
    /\ db.made
    /\ Len(db.calls) < MaxDbCalls
    /\ LET arg == Len(db.calls) + 1
           callNow == db.immediate /\ db.timeout = Null
       IN /\ db' = [db EXCEPT !.timeout = now + db.wait,
                              !.args = arg,
                              !.timers = clearTimeoutDb(db) \cup
                                             {DbTimer(now + db.wait, arg)},
                              !.calls = Append(@, now)]
          /\ dbLog' = IF callNow THEN Append(dbLog, FuncRun(arg, TRUE)) ELSE dbLog
    /\ UNCHANGED <<obsVars, now, notDebounce>>

\* `later` without the test of immediate.
laterRunsFunc ==
    /\ \E tm \in db.timers :
          /\ tm.deadline <= now
          /\ db' = [db EXCEPT !.timeout = Null, !.timers = @ \ {tm}]
          /\ dbLog' = Append(dbLog, FuncRun(tm.args, FALSE))
    /\ UNCHANGED <<obsVars, now, notDebounce>>

\* A pending timer fires: the `later` of the call that armed it runs, with
\* the arguments of that call.
later ==
    /\ \E tm \in db.timers :
          /\ tm.deadline <= now
          /\ db' = [db EXCEPT !.timeout = Null, !.timers = @ \ {tm}]
          /\ dbLog' = IF ~db.immediate THEN Append(dbLog, FuncRun(tm.args, FALSE))
                      ELSE dbLog
    /\ UNCHANGED <<obsVars, now, notDebounce>>

TickDb ==
    /\ db.made
    /\ now < MaxDbTime
    /\ \A tm \in db.timers : tm.deadline > now
    /\ now' = now + 1
    /\ UNCHANGED <<obsVars, utilVars>>

NextDebounce ==
    \/ \E immediate \in BOOLEAN : Debounce(immediate)
    \/ executedFunction
    \/ later
    \/ TickDb

SpecDebounce == Init /\ [][NextDebounce]_vars

\* ---------------------------------------------- throttle: the steps
notThrottle == <<pl, pollLog, db, dbLog, pair, wu, sd>>

\* throttle(func, wait) returns the wrapper.
Throttle ==
    /\ ~th.made
    /\ th' = [th EXCEPT !.made = TRUE, !.wait = ThWait]
    /\ UNCHANGED <<obsVars, now, notThrottle, thLog>>

\* The wrapper without inThrottle = true.
throttledFunctionNoWindow ==
    /\ th.made
    /\ Len(th.calls) < MaxThCalls
    /\ IF ~th.inThrottle
       THEN /\ thLog' = Append(thLog, [t |-> now, arg |-> Len(th.calls) + 1])
            /\ th' = [th EXCEPT !.timer = now + th.wait,
                                !.calls = Append(@, now)]
       ELSE /\ thLog' = thLog
            /\ th' = [th EXCEPT !.calls = Append(@, now)]
    /\ UNCHANGED <<obsVars, now, notThrottle>>

\* A call of the wrapper throttle returned (executedFunction in the source);
\* calls are numbered and pass their number.
throttledFunction ==
    /\ th.made
    /\ Len(th.calls) < MaxThCalls
    /\ IF ~th.inThrottle
       THEN /\ thLog' = Append(thLog, [t |-> now, arg |-> Len(th.calls) + 1])
            /\ th' = [th EXCEPT !.inThrottle = TRUE,
                                !.timer = now + th.wait,
                                !.calls = Append(@, now)]
       ELSE /\ thLog' = thLog
            /\ th' = [th EXCEPT !.calls = Append(@, now)]
    /\ UNCHANGED <<obsVars, now, notThrottle>>

\* The timer callback without its assignment.
endThrottleKeepsClosed ==
    /\ th.timer # Null
    /\ th.timer <= now
    /\ th' = [th EXCEPT !.timer = Null]
    /\ UNCHANGED <<obsVars, now, notThrottle, thLog>>

\* The timer callback () => inThrottle = false.
endThrottle ==
    /\ th.timer # Null
    /\ th.timer <= now
    /\ th' = [th EXCEPT !.inThrottle = FALSE, !.timer = Null]
    /\ UNCHANGED <<obsVars, now, notThrottle, thLog>>

TickTh ==
    /\ th.made
    /\ now < MaxThTime
    /\ th.timer = Null \/ th.timer > now
    /\ now' = now + 1
    /\ UNCHANGED <<obsVars, utilVars>>

NextThrottle ==
    \/ Throttle
    \/ throttledFunction
    \/ endThrottle
    \/ TickTh

SpecThrottle == Init /\ [][NextThrottle]_vars

\* A call of the wrapper with a func that throws, the window opened all the
\* same (as with try / finally around func).
throttledFunctionThrowsInFinally ==
    /\ th.made
    /\ Len(th.calls) < MaxThCalls
    /\ IF ~th.inThrottle
       THEN /\ thLog' = Append(thLog, [t |-> now, arg |-> Len(th.calls) + 1])
            /\ th' = [th EXCEPT !.inThrottle = TRUE,
                                !.timer = now + th.wait,
                                !.calls = Append(@, now),
                                !.thrown = @ \cup {Len(th.calls) + 1}]
       ELSE /\ thLog' = thLog
            /\ th' = [th EXCEPT !.calls = Append(@, now)]
    /\ UNCHANGED <<obsVars, now, notThrottle>>

\* A call of the wrapper with a func that throws when it is invoked: the
\* exception leaves the wrapper at func.apply, before inThrottle = true and
\* setTimeout; with the window open func is not invoked.
throttledFunctionThrows ==
    /\ th.made
    /\ Len(th.calls) < MaxThCalls
    /\ IF ~th.inThrottle
       THEN /\ thLog' = Append(thLog, [t |-> now, arg |-> Len(th.calls) + 1])
            /\ th' = [th EXCEPT !.calls = Append(@, now),
                                !.thrown = @ \cup {Len(th.calls) + 1}]
       ELSE /\ thLog' = thLog
            /\ th' = [th EXCEPT !.calls = Append(@, now)]
    /\ UNCHANGED <<obsVars, now, notThrottle>>

NextThrottleThrows ==
    \/ Throttle
    \/ throttledFunction
    \/ throttledFunctionThrows
    \/ endThrottle
    \/ TickTh

SpecThrottleThrows == Init /\ [][NextThrottleThrows]_vars

\* -------------------------- two independent wrappers: the steps
notPair == <<pl, pollLog, db, dbLog, th, thLog, wu, sd>>

\* The closure variables shared by every wrapper but Solo, as if `let timeout`
\* and `let inThrottle` were declared outside debounce and throttle.
slotShared(w) == IF w = "Solo" THEN "Solo" ELSE "A"

\* The closure whose `timeout` / `inThrottle` wrapper w reads and writes: the
\* one of the debounce / throttle call that made w.
slot(w) == w

\* A call of wrapper w at time t (executedFunction of debounce or of
\* throttle); the call passes its number as argument.
pairCall(P, w, t) ==
    LET v == slot(w)
        k == P.kind[w]
        n == P.calls[w] + 1
        tm == [id |-> P.nextId, w |-> w, deadline |-> t + PairWait(k), arg |-> n]
        run == [t |-> t, arg |-> n]
        P1 == [P EXCEPT !.calls[w] = n]
    IN IF k = "throttle"
       THEN IF ~P.inThrottle[v]
            THEN [P1 EXCEPT !.runs[w] = Append(@, run),
                            !.inThrottle[v] = TRUE,
                            !.timers = @ \cup {tm},
                            !.nextId = @ + 1]
            ELSE P1
       ELSE LET callNow == k = "debounceImmediate" /\ P.timeout[v] = Null
            IN [P1 EXCEPT !.timers = {x \in @ : x.id # P.timeout[v]} \cup {tm},
                          !.timeout[v] = P.nextId,
                          !.nextId = @ + 1,
                          !.runs[w] = IF callNow THEN Append(@, run) ELSE @]

\* The callback of timer tm runs at time t (`later` of debounce, or the
\* arrow function of throttle).
pairFire(P, tm, t) ==
    LET v == slot(tm.w)
        k == P.kind[tm.w]
        P1 == [P EXCEPT !.timers = @ \ {tm}]
    IN IF k = "throttle"
       THEN [P1 EXCEPT !.inThrottle[v] = FALSE]
       ELSE [P1 EXCEPT !.timeout[v] = Null,
                       !.runs[tm.w] = IF k = "debounce"
                                      THEN Append(@, [t |-> t, arg |-> tm.arg])
                                      ELSE @]

\* The timers of S fire, in the order they were armed.
RECURSIVE pairFireAll(_, _, _)
pairFireAll(P, S, t) ==
    IF S = {} THEN P
    ELSE LET tm == CHOOSE x \in S : \A y \in S : x.id <= y.id
         IN pairFireAll(pairFire(P, tm, t), S \ {tm}, t)

PairDue(ws) == {tm \in pair.timers : tm.w \in ws /\ tm.deadline <= now}

\* Two separate calls of debounce / throttle make A and B.
MakePair(kindA, kindB) ==
    /\ ~pair.made
    /\ pair' = [pair EXCEPT !.made = TRUE,
                            !.kind = [w \in PairW |-> IF w = "B" THEN kindB ELSE kindA]]
    /\ UNCHANGED <<obsVars, now, notPair>>

\* Wrapper A is called; so it is in the run without B.
CallA ==
    /\ pair.made
    /\ pair.calls["A"] < MaxPairCalls
    /\ pair' = pairCall(pairCall(pair, "A", now), "Solo", now)
    /\ UNCHANGED <<obsVars, now, notPair>>

CallB ==
    /\ pair.made
    /\ pair.calls["B"] < MaxPairCalls
    /\ pair' = pairCall(pair, "B", now)
    /\ UNCHANGED <<obsVars, now, notPair>>

\* The timers of A that are due fire, in both runs.
FireA ==
    /\ PairDue({"A", "Solo"}) # {}
    /\ pair' = pairFireAll(pair, PairDue({"A", "Solo"}), now)
    /\ UNCHANGED <<obsVars, now, notPair>>

FireB ==
    /\ \E tm \in PairDue({"B"}) : pair' = pairFire(pair, tm, now)
    /\ UNCHANGED <<obsVars, now, notPair>>

TickPair ==
    /\ pair.made
    /\ now < MaxPairTime
    /\ PairDue(PairW) = {}
    /\ now' = now + 1
    /\ UNCHANGED <<obsVars, utilVars>>

NextPair ==
    \/ \E kindA \in PairKinds, kindB \in PairKinds : MakePair(kindA, kindB)
    \/ CallA
    \/ CallB
    \/ FireA
    \/ FireB
    \/ TickPair

SpecPair == Init /\ [][NextPair]_vars

\* --------------------------------------------- waitUntil: the steps
notWaitUntil == <<pl, pollLog, db, dbLog, th, thLog, pair, sd>>

\* The timers left pending when the i-th has fired.
RemoveAt(seq, i) == [j \in 1..(Len(seq) - 1) |-> IF j < i THEN seq[j] ELSE seq[j + 1]]

\* A promise settles once: what resolve() or reject() makes of its state.
Settle(state, to) == IF state = "pending" THEN to ELSE state

\* checkCondition that goes on scheduling after condition() was truthy.
checkConditionKeepsPolling(w, outcome, t) ==
    LET w1 == [w EXCEPT !.checks = Append(@, [t |-> t, outcome |-> outcome])]
    IN IF outcome = "true"
       THEN [w1 EXCEPT !.nResolve = @ + 1, !.state = Settle(@, "resolved"),
                       !.timer = t + w.interval,
                       !.pending = Append(@, t + w.interval), !.nTimers = @ + 1]
       ELSE IF outcome = "false"
       THEN [w1 EXCEPT !.timer = t + w.interval,
                       !.pending = Append(@, t + w.interval), !.nTimers = @ + 1]
       ELSE [w1 EXCEPT !.timer = Null, !.nReject = @ + 1,
                       !.state = Settle(@, "rejected"),
                       !.error = IF w.state = "pending" THEN outcome ELSE @]

\* checkCondition that tries again after condition() threw.
checkConditionRetries(w, outcome, t) ==
    LET w1 == [w EXCEPT !.checks = Append(@, [t |-> t, outcome |-> outcome])]
    IN IF outcome = "true"
       THEN [w1 EXCEPT !.timer = Null, !.nResolve = @ + 1,
                       !.state = Settle(@, "resolved")]
       ELSE [w1 EXCEPT !.timer = t + w.interval,
                       !.pending = Append(@, t + w.interval), !.nTimers = @ + 1]

\* One run of checkCondition at time t, condition() having the given outcome.
checkCondition(w, outcome, t) ==
    LET w1 == [w EXCEPT !.checks = Append(@, [t |-> t, outcome |-> outcome]),
                        !.timer = Null]
    IN IF outcome = "true"
       THEN [w1 EXCEPT !.nResolve = @ + 1, !.state = Settle(@, "resolved")]
       ELSE IF outcome = "false"
       THEN [w1 EXCEPT !.timer = t + w.interval,
                       !.pending = Append(@, t + w.interval), !.nTimers = @ + 1]
       ELSE [w1 EXCEPT !.nReject = @ + 1,
                       !.state = Settle(@, "rejected"),
                       !.error = IF w.state = "pending" THEN outcome ELSE @]

\* waitUntil(condition, interval): the executor runs checkCondition at once.
WaitUntil(interval, outcome) ==
    /\ ~wu.called
    /\ wu' = checkCondition([wu EXCEPT !.called = TRUE,
                                       !.interval = interval,
                                       !.state = "pending"],
                            outcome, now)
    /\ UNCHANGED <<obsVars, now, notWaitUntil>>

\* The timer armed with setTimeout(checkCondition, interval) fires.
CheckAgain(outcome) ==
    /\ \E i \in 1..Len(wu.pending) :
          /\ wu.pending[i] <= now
          /\ wu' = checkCondition([wu EXCEPT !.pending = RemoveAt(@, i)], outcome, now)
    /\ UNCHANGED <<obsVars, now, notWaitUntil>>

TickWu ==
    /\ wu.called
    /\ now < MaxWuTime
    /\ \A i \in 1..Len(wu.pending) : wu.pending[i] > now
    /\ now' = now + 1
    /\ UNCHANGED <<obsVars, utilVars>>

NextWaitUntil ==
    \/ \E interval \in WuIntervals, outcome \in ConditionOutcomes :
          WaitUntil(interval, outcome)
    \/ \E outcome \in ConditionOutcomes : CheckAgain(outcome)
    \/ TickWu

SpecWaitUntil == Init /\ [][NextWaitUntil]_vars

\* ------------------- waitForElement, waitForElements: the steps
notWait == <<domVars, now, osVars, ossVars, lastCalls, everCalled, toLog, utilVars>>

\* A waitForElement that arms a timeout when it starts to observe.
waitForElementCallWithTimeout(w, par, m, sel, n) ==
    LET r == WaitForElement(par, m, sel)
        w1 == [w EXCEPT !.called = TRUE, !.sel = sel, !.state = "pending"]
    IN IF r.state = "resolved"
       THEN [w1 EXCEPT !.state = Settle(@, "resolved"), !.el = r.el,
                       !.nResolve = @ + 1, !.seen = n]
       ELSE [w1 EXCEPT !.connected = TRUE, !.nObserve = @ + 1, !.nTimers = @ + 1]

\* What the promise executor of waitForElement(sel) makes of the closure w,
\* n mutations having been made.
waitForElementCall(w, par, m, sel, n) ==
    LET r == WaitForElement(par, m, sel)
        w1 == [w EXCEPT !.called = TRUE, !.sel = sel, !.state = "pending"]
    IN IF r.state = "resolved"
       THEN [w1 EXCEPT !.state = Settle(@, "resolved"), !.el = r.el,
                       !.nResolve = @ + 1, !.seen = n]
       ELSE [w1 EXCEPT !.connected = TRUE, !.nObserve = @ + 1]

\* The observer callback of waitForElement without obs.disconnect().
onElementMutationsStaysConnected(w, par, m, n) ==
    LET element == QuerySelector(par, m)
        w1 == [w EXCEPT !.q = <<>>, !.batches = @ + 1]
    IN IF element # Null
       THEN [w1 EXCEPT !.state = Settle(@, "resolved"),
                       !.el = IF w.state = "pending" THEN element ELSE @,
                       !.nResolve = @ + 1,
                       !.seen = IF w.state = "pending" THEN n ELSE @]
       ELSE w1

\* The observer callback of waitForElement, handed the queued batch.
onElementMutations(w, par, m, n) ==
    LET element == QuerySelector(par, m)
        w1 == [w EXCEPT !.q = <<>>, !.batches = @ + 1]
    IN IF element # Null
       THEN [w1 EXCEPT !.connected = FALSE,
                       !.state = Settle(@, "resolved"),
                       !.el = IF w.state = "pending" THEN element ELSE @,
                       !.nResolve = @ + 1,
                       !.seen = IF w.state = "pending" THEN n ELSE @]
       ELSE w1

\* waitForElements that registers its observer before it looks.
waitForElementsCallObserves(w, par, m, root, n) ==
    LET elements == QuerySelectorAll(par, m, root)
        w1 == [w EXCEPT !.called = TRUE, !.root = root, !.state = "pending",
                        !.connected = TRUE, !.nObserve = @ + 1]
    IN IF elements # <<>>
       THEN [w1 EXCEPT !.state = Settle(@, "resolved"), !.els = elements,
                       !.nResolve = @ + 1, !.seen = n]
       ELSE w1

\* What the promise executor of waitForElements(selector, root) makes of the
\* closure w; root Body stands for context = document.
waitForElementsCall(w, par, m, root, n) ==
    LET elements == QuerySelectorAll(par, m, root)
        w1 == [w EXCEPT !.called = TRUE, !.root = root, !.state = "pending"]
    IN IF elements # <<>>
       THEN [w1 EXCEPT !.state = Settle(@, "resolved"), !.els = elements,
                       !.nResolve = @ + 1, !.seen = n]
       ELSE [w1 EXCEPT !.connected = TRUE, !.nObserve = @ + 1]

\* The observer callback of waitForElements resolving with the first element
\* found only.
onElementsMutationsFirstOnly(w, par, m, n) ==
    LET foundElements == QuerySelectorAll(par, m, w.root)
        w1 == [w EXCEPT !.q = <<>>, !.batches = @ + 1]
    IN IF foundElements # <<>>
       THEN [w1 EXCEPT !.connected = FALSE,
                       !.state = Settle(@, "resolved"),
                       !.els = IF w.state = "pending" THEN <<Head(foundElements)>> ELSE @,
                       !.nResolve = @ + 1,
                       !.seen = IF w.state = "pending" THEN n ELSE @]
       ELSE w1

\* The observer callback of waitForElements, handed the queued batch.
onElementsMutations(w, par, m, n) ==
    LET foundElements == QuerySelectorAll(par, m, w.root)
        w1 == [w EXCEPT !.q = <<>>, !.batches = @ + 1]
    IN IF foundElements # <<>>
       THEN [w1 EXCEPT !.connected = FALSE,
                       !.state = Settle(@, "resolved"),
                       !.els = IF w.state = "pending" THEN foundElements ELSE @,
                       !.nResolve = @ + 1,
                       !.seen = IF w.state = "pending" THEN n ELSE @]
       ELSE w1

\* Does the wait find a match at the call?
MatchAtCall(sel) == sel # Null \/ QuerySelector(parent, matches) # Null
MatchesAtCall(root) == QuerySelectorAll(parent, matches, root) # <<>>

CallWaitForElement(sel) ==
    /\ ~wf.called
    /\ wf' = [waitForElementCall(wf, parent, matches, sel, nRec)
                EXCEPT !.atCall = MatchAtCall(sel)]
    /\ UNCHANGED <<notWait, wfs>>

DeliverWaitForElement ==
    /\ wf.q # <<>>
    /\ wf' = onElementMutations(wf, parent, matches, nRec)
    /\ UNCHANGED <<notWait, wfs>>

CallWaitForElements(root) ==
    /\ ~wfs.called
    /\ wfs' = [waitForElementsCall(wfs, parent, matches, root, nRec)
                 EXCEPT !.atCall = MatchesAtCall(root)]
    /\ UNCHANGED <<notWait, wf>>

DeliverWaitForElements ==
    /\ wfs.q # <<>>
    /\ wfs' = onElementsMutations(wfs, parent, matches, nRec)
    /\ UNCHANGED <<notWait, wf>>

NextWait ==
    \/ Mutate(Elems, MaxMutAll)
    \/ \E sel \in Elems \cup {Null} : CallWaitForElement(sel)
    \/ DeliverWaitForElement
    \/ \E root \in Elems \cup {Body} : CallWaitForElements(root)
    \/ DeliverWaitForElements

SpecWait == Init /\ [][NextWait]_vars

\* Time goes on; no timer of a wait can be due, the waits arm none.
TickWait ==
    /\ now < MaxWaitTime
    /\ now' = now + 1
    /\ UNCHANGED <<domVars, osVars, ossVars, lastCalls, everCalled, toLog, utilVars, waitVars>>

NextWaitTimed ==
    \/ Mutate(Elems, MaxMut)
    \/ \E sel \in Elems \cup {Null} : CallWaitForElement(sel)
    \/ DeliverWaitForElement
    \/ \E root \in Elems \cup {Body} : CallWaitForElements(root)
    \/ DeliverWaitForElements
    \/ TickWait

SpecWaitTimed == Init /\ [][NextWaitTimed]_vars

\* --------------------------------------- trackScrollDepth: the steps
notScroll == <<pl, pollLog, db, dbLog, th, thLog, pair, wu>>

\* The thresholds a call is made with: the default, and a list with a
\* repeated threshold out of order.
DefaultThresholds == <<25, 50, 75, 100>>
ThresholdLists == {DefaultThresholds, <<50, 25, 50>>}

\* maxScroll at the call: a page that does not scroll, and one that scrolls
\* by 4 units.
MaxScrolls == {0, 4}

\* Math.round((scrollTop / maxScroll) * 100): 0 / 0 is NaN, x / 0 Infinity,
\* and Math.round rounds halves up.
Depth(scrollTop, maxScroll) ==
    IF maxScroll = 0
    THEN [kind |-> IF scrollTop = 0 THEN "NaN" ELSE "Infinity", v |-> 0]
    ELSE [kind |-> "number", v |-> (200 * scrollTop + maxScroll) \div (2 * maxScroll)]

\* depth >= threshold
AtOrAbove(depth, threshold) ==
    \/ depth.kind = "Infinity"
    \/ depth.kind = "number" /\ depth.v >= threshold

\* The function trackScrollDepth returns: removeEventListener.
stopTracking(s) == [s EXCEPT !.listening = FALSE, !.stopped = TRUE]

\* thresholds.forEach(...) from the i-th threshold on, the callback doing
\* script[i] when it is invoked for it; an exception leaves forEach.
RECURSIVE forEachThreshold(_, _, _, _)
forEachThreshold(s, depth, script, i) ==
    IF i > Len(s.thresholds) THEN s
    ELSE LET threshold == s.thresholds[i]
         IN IF AtOrAbove(depth, threshold) /\ threshold \notin s.triggered
            THEN LET s1 == [s EXCEPT !.triggered = @ \cup {threshold},
                                     !.log = Append(@, [threshold |-> threshold,
                                                        depth     |-> depth,
                                                        event     |-> s.events,
                                                        afterStop |-> s.stopped])]
                     s2 == IF script[i] = "stop" THEN stopTracking(s1) ELSE s1
                 IN IF script[i] = "throw" THEN [s2 EXCEPT !.threw = TRUE]
                    ELSE forEachThreshold(s2, depth, script, i + 1)
            ELSE forEachThreshold(s, depth, script, i + 1)

\* handleScroll, the throttled handler, at time t: an exception of the
\* callback leaves the wrapper before the window is opened.
handleScroll(s, scrollTop, script, t) ==
    IF s.inThrottle THEN s
    ELSE LET r == forEachThreshold(s, Depth(scrollTop, s.maxScroll), script, 1)
         IN IF r.threw THEN r
            ELSE [r EXCEPT !.inThrottle = TRUE, !.timer = t + ScrollWait]

TrackScrollDepth(thresholds, maxScroll) ==
    /\ ~sd.called
    /\ sd' = [sd EXCEPT !.called = TRUE, !.thresholds = thresholds,
                        !.maxScroll = maxScroll, !.listening = TRUE]
    /\ UNCHANGED <<obsVars, now, notScroll>>

\* The page is scrolled to scrollTop and the scroll event is dispatched.
ScrollEvent(scrollTop, script) ==
    /\ sd.called
    /\ sd.events < MaxScrollEvents
    /\ LET s0 == [sd EXCEPT !.events = @ + 1, !.threw = FALSE]
       IN sd' = IF sd.listening THEN handleScroll(s0, scrollTop, script, now) ELSE s0
    /\ UNCHANGED <<obsVars, now, notScroll>>

\* The caller invokes the function trackScrollDepth returned.
StopTracking ==
    /\ sd.called
    /\ sd' = stopTracking(sd)
    /\ UNCHANGED <<obsVars, now, notScroll>>

\* The throttle's timer callback () => inThrottle = false.
EndScrollThrottle ==
    /\ sd.timer # Null
    /\ sd.timer <= now
    /\ sd' = [sd EXCEPT !.inThrottle = FALSE, !.timer = Null]
    /\ UNCHANGED <<obsVars, now, notScroll>>

TickScroll ==
    /\ sd.called
    /\ now < MaxScrollTime
    /\ sd.timer = Null \/ sd.timer > now
    /\ now' = now + 1
    /\ UNCHANGED <<obsVars, utilVars>>

NextScroll ==
    \/ \E thresholds \in ThresholdLists, maxScroll \in MaxScrolls :
          TrackScrollDepth(thresholds, maxScroll)
    \/ \E scrollTop \in 0..MaxScrollTop,
          script \in [1..Len(sd.thresholds) -> CbOutcomes] :
          ScrollEvent(scrollTop, script)
    \/ StopTracking
    \/ EndScrollThrottle
    \/ TickScroll

SpecScroll == Init /\ [][NextScroll]_vars

\* ------------------------------ the cancelable subsystems together
\* One of observeSelector, observeSelectors and poll is called in a
\* behaviour, on a page of the elements observeSelector is given.
NextWatch ==
    \/ Mutate(OSElems, MaxMut)
    \/ \E sel \in OSElems \cup {Null}, ms \in MutationLists, t \in {Null, TimeoutT} :
          ~oss.called /\ ~pl.called /\ ObserveSelector(sel, ms, t)
    \/ StopOS
    \/ DeliverWait
    \/ ThenStart
    \/ \E script \in [1..Len(oQ) -> CbOutcomes] : DeliverOS(script)
    \/ TimeoutOS
    \/ TickOS
    \/ \E ms \in MutationLists, t \in {Null, TimeoutT} :
          ~os.called /\ ~pl.called /\ ObserveSelectors(ms, t)
    \/ StopOSS
    \/ DeliverRoot
    \/ \E i \in 1..Len(watches) :
          \E script \in [1..Len(watches[i].q) -> CbOutcomes] : DeliverElement(i, script)
    \/ TimeoutOSS
    \/ \E delay \in PollDelays : ~os.called /\ ~oss.called /\ Poll(delay)
    \/ CancelPoll
    \/ \E outcome \in CbOutcomes : IntervalFires(outcome)
    \/ TickPoll

SpecWatch == Init /\ [][NextWatch]_vars

\* ------------------------------------------------------ the claims

\* C1: observeSelector: once the returned stop function has been invoked,
\* the callback is never invoked again, whether the stop came between the
\* production and the delivery of a batch or at any other moment.  Every
\* invocation records whether stopObserving had run before it.
C1_NoCallbackAfterStop ==
    os.called => \A i \in DOMAIN lastCalls : ~lastCalls[i].afterStop

\* C2: observeSelectors: after global cancellation (stop function or timeout)
\* no mutation record reaches the callback, records queued at the moment of
\* cancellation included.
C2_NoCallbackAfterCancel ==
    oss.called =>
        \A i \in DOMAIN lastCalls : lastCalls[i].w >= 1 => ~lastCalls[i].afterStop

\* C3: observeSelector on a string selector that matches nothing yet: when the
\* stop function is invoked before any watch was started, no mutation watch
\* is ever started and the callback is never invoked, whatever appears and
\* mutates afterwards.
C3_StopBeforeFoundNeverWatches ==
    os.stopEarly =>
        /\ os.nObservers = 0
        /\ ~os.observer
        /\ oQ = <<>>
        /\ ~everCalled

\* The element appeared after the early stop, the wait resolved with it, the
\* reaction ran, and the page went on mutating.
C3_Witness ==
    /\ os.stopEarly
    /\ os.wfe = "done"
    /\ InDoc(parent, os.wfeEl)
    /\ os.wfeEl \in matches
    /\ nRec > os.foundAt

\* C4: observeSelector with a timeout T on a selector that never matches, not
\* stopped by the caller before T: onTimeout is invoked exactly once, T after
\* the call.
C4_TimeoutWhenNeverMatched ==
    (/\ os.called
     /\ os.timeout # Null
     /\ ~everMatched
     /\ now > os.callTime + os.timeout
     /\ ~(os.isStopped /\ toLog = <<>>))
    => /\ Len(toLog) = 1
       /\ toLog[1] = os.callTime + os.timeout

\* C5: observeSelector with a timeout T: the timeout is measured from the
\* call, so onTimeout runs T after the call also when the element was found
\* later than the call.
C5_TimeoutCountsFromCall ==
    os.called => \A i \in DOMAIN toLog : toLog[i] = os.callTime + os.timeout

\* C6: observeSelector: after cancellation or timeout every platform watch
\* resource of the call is released: the element watch, the timer and the
\* discovery watch waitForElement put on document.body.
C6_ReleasedAfterCancel ==
    os.isStopped =>
        /\ ~os.observer
        /\ os.timeoutId = Null
        /\ os.wfe # "pending"

\* C7: a batch of N records delivered to the watch of one target causes
\* exactly N invocations, one per record, in the order of the batch, each with
\* the watched element as first argument.
C7_OneInvocationPerRecord ==
    lastCalls # <<>> =>
        /\ Len(lastCalls) = lastCalls[1].n
        /\ \A i \in DOMAIN lastCalls :
              /\ lastCalls[i].idx = i
              /\ lastCalls[i].el = IF lastCalls[i].w = 0 THEN os.el
                                   ELSE watches[lastCalls[i].w].el
              /\ i > 1 => lastCalls[i - 1].rec < lastCalls[i].rec

\* C8: when the callback throws for one record, the later records of the same
\* batch are still delivered and the watch stays active (it is disconnected
\* only by a cancellation).
C8_ThrowKeepsDelivering ==
    \A i \in DOMAIN lastCalls :
        (lastCalls[i].threw /\ lastCalls[i].w >= 1) =>
            /\ lastCalls[i].idx = lastCalls[i].n \/ i < Len(lastCalls)
            /\ watches[lastCalls[i].w].connected \/ oss.cancelled

\* C9: observeSelectors: every element has at most one active per-element
\* watch, and the tracking table names it; finding a tracked element again
\* adds no watch.
ActiveWatches(e) == {i \in DOMAIN watches : watches[i].el = e /\ watches[i].connected}

C9_AtMostOneWatchPerElement ==
    /\ \A e \in Elems : Cardinality(ActiveWatches(e)) <= 1
    /\ \A e \in Tracked(oss) : ActiveWatches(e) = {oss.observers[e]}

\* Two elements are tracked and a later query has found a tracked one again.
C9_Witness ==
    /\ oss.rematched
    /\ ~oss.cancelled
    /\ Cardinality(Tracked(oss)) >= 2
    /\ Len(watches) = Cardinality(Tracked(oss))

\* C10: growth of observeSelectors.  After a rootObserver batch every element
\* of the document that matches has its own watch ...
GrowthStep ==
    (rootQ # <<>> /\ rootQ' = <<>>) =>
        \A e \in Elems :
            (InDoc(parent, e) /\ e \in matches) =>
                /\ e \in Tracked(oss')
                /\ Cardinality({i \in DOMAIN watches' :
                                   watches'[i].el = e /\ watches'[i].connected}) = 1

\* ... until cancellation there are exactly as many watches as tracked
\* elements ...
WatchPerTracked ==
    (oss.called /\ ~oss.cancelled) => Len(watches) = Cardinality(Tracked(oss))

\* The observer started with no match and three rootObserver batches have
\* each added a watch.
ThreeInjected == oss.called /\ oss.initial = 0 /\ oss.growths = 3

\* ... and then a mutation of one element invokes the callback only for that
\* element (the claim as it stands) ...
CalledOnlyForTarget ==
    ThreeInjected =>
        \A i \in DOMAIN lastCalls : lastCalls[i].el = lastCalls[i].target

\* ... or (as amended) for that element and, with subtree observation, for the
\* watched elements that contain it, and for no other element.
CalledForContainers ==
    ThreeInjected =>
        \A i \in DOMAIN lastCalls :
            \/ lastCalls[i].el = lastCalls[i].target
            \/ oss.opts.subtree /\ lastCalls[i].el \in lastCalls[i].anc

\* C10 as stated: three injections give three watches, and a mutation of one
\* element invokes the callback only for that element.
C10_GrowthAndIndependence ==
    [][GrowthStep]_vars /\ []WatchPerTracked /\ []CalledOnlyForTarget

\* C10 as amended: the callback is also invoked for the watched elements
\* that contain the mutated one when subtree observation is enabled.
C10_GrowthAndContainment ==
    [][GrowthStep]_vars /\ []WatchPerTracked /\ []CalledForContainers

\* Started with no match, three rootObserver batches each added a watch, and
\* the callback has just been invoked for a mutation made after them.
C10_Witness ==
    /\ ThreeInjected
    /\ ~oss.cancelled
    /\ Len(watches) = 3
    /\ Cardinality(Tracked(oss)) = 3
    /\ lastCalls # <<>>
    /\ lastCalls[1].rec > 3

\* C11: observeSelectors, not cancelled: once the batches of a mutation have
\* been delivered, every element of the document that matches the selector has
\* its own watch, whatever kind of mutation made it match.
C11_EveryNewMatchGetsWatch ==
    (oss.called /\ ~oss.cancelled /\ ~MicrotasksOSS) =>
        \A e \in Elems : (InDoc(parent, e) /\ e \in matches) => e \in Tracked(oss)

\* C12: observeSelectors: a step that leaves the observer uncancelled keeps
\* every tracked element in the table, with the same watch, still connected,
\* whether or not the element still matches or is still in the document.
TrackedStays ==
    (oss.called /\ ~oss'.cancelled) =>
        \A e \in Tracked(oss) :
            /\ e \in Tracked(oss')
            /\ oss'.observers[e] = oss.observers[e]
            /\ watches'[oss.observers[e]].connected

C12_TrackedNeverShrinks == [][TrackedStays]_vars

\* A tracked element has left the document and has stopped matching, the
\* rootObserver batches of that have been handled, and it is still watched.
C12_Witness ==
    /\ ~oss.cancelled
    /\ rootQ = <<>>
    /\ \E e \in Tracked(oss) :
          /\ ~InDoc(parent, e)
          /\ e \notin matches
          /\ watches[oss.observers[e]].connected

\* C13: observeSelectors: in the state the stop function returns in, the
\* root watch and every per-element watch are disconnected and the tracking
\* table is empty.
OSSReleased ==
    /\ ~oss.rootConnected
    /\ oss.observers = <<>>
    /\ \A i \in DOMAIN watches : ~watches[i].connected

\* The stop function runs, called by the page or by the callback.
StopReturns ==
    \/ StopOSS
    \/ \E i \in 1..Len(watches) :
          \E script \in [1..Len(watches[i].q) -> CbOutcomes] :
              StopCalled(watches[i].q, script) /\ DeliverElement(i, script)

C13_StopReleasesEverything == [][StopReturns => OSSReleased']_vars

\* Stopped by the stop function (no timeout has fired) with two elements
\* watched and the callback already used.
C13_Witness ==
    /\ oss.cancelled
    /\ toLog = <<>>
    /\ Len(watches) >= 2
    /\ everCalled
    /\ OSSReleased

\* C14: the stop functions of observeSelector, observeSelectors and poll are
\* idempotent: in every state, invoking one twice gives the state invoking it
\* once gives; once a timeout has fired an invocation changes nothing; and an
\* invocation invokes no callback.
StopTwiceIsStopOnce ==
    /\ os.called => stopObserving(stopObserving(os)) = stopObserving(os)
    /\ oss.called =>
          LET once == stopObservingAll(oss, watches)
          IN stopObservingAll(once.closure, once.watches) = once
    /\ pl.called => cancelPoll(cancelPoll(pl, now), now) = cancelPoll(pl, now)

StopAfterTimeoutIsNoOp ==
    toLog # <<>> =>
        /\ os.called => stopObserving(os) = os
        /\ oss.called =>
              stopObservingAll(oss, watches) = [closure |-> oss, watches |-> watches]

StopIsQuiet ==
    (StopOS \/ StopOSS \/ CancelPoll) =>
        /\ lastCalls' = <<>>
        /\ UNCHANGED <<everCalled, toLog, pollLog>>

C14_StopIsIdempotent ==
    []StopTwiceIsStopOnce /\ []StopAfterTimeoutIsNoOp /\ [][StopIsQuiet]_vars

\* observeSelectors has timed out with a watch made and used: the stop
\* function, invoked now, is a second cancellation.
C14_Witness ==
    /\ toLog # <<>>
    /\ oss.cancelled
    /\ Len(watches) >= 1
    /\ everCalled

\* C15: observeSelector with a timeout, on an element that exists at the call:
\* onTimeout runs at most once, at the deadline counted from the call; time
\* passes the deadline only after the timeout or a stop; after a stop that came
\* first onTimeout never runs; after the timeout nothing changes any more.
ElementAtCall == os.called /\ os.timeout # Null /\ os.wfe = "none" /\ os.nObservers = 1

OneOutcome ==
    ElementAtCall =>
        /\ Len(toLog) <= 1
        /\ toLog # <<>> => toLog[1] = os.callTime + os.timeout
        /\ now > os.callTime + os.timeout => os.isStopped

FirstOutcomeWins ==
    ElementAtCall =>
        /\ (os.isStopped /\ toLog = <<>>) => toLog' = <<>>
        /\ toLog # <<>> => UNCHANGED <<os, toLog>>

C15_StopOrTimeoutNotBoth == []OneOutcome /\ [][FirstOutcomeWins]_vars

\* The stop came first and the deadline has passed without onTimeout.
C15_Witness ==
    /\ ElementAtCall
    /\ os.isStopped
    /\ toLog = <<>>
    /\ now > os.callTime + os.timeout

\* C16: observeSelectors with a timeout: after the stop function has been
\* invoked with the timeout not yet fired, onTimeout is never invoked.
StopDisarmsTimeout == (oss.cancelled /\ toLog = <<>>) => toLog' = <<>>

C16_StopDisarmsTimeout == [][StopDisarmsTimeout]_vars

\* C17: observeSelector and observeSelectors: in the state onTimeout runs in,
\* no watch of the observer is active.
NoActiveWatch ==
    /\ ~os.observer
    /\ os.wfe # "pending"
    /\ OSSReleased

C17_CancelledBeforeOnTimeout == [][toLog' # toLog => NoActiveWatch']_vars

\* onTimeout of observeSelectors has run while two elements were watched and
\* records were being delivered.
C17_Witness ==
    /\ toLog # <<>>
    /\ oss.called
    /\ Len(watches) = 2
    /\ everCalled
    /\ nRec = MaxMut

\* C18: poll, not cancelled: the callback has run once for every whole delay
\* elapsed since the call (an invocation due at this instant is the next thing
\* to happen), at the multiples of the delay and never at the call; with delay
\* 5 and 22 time units elapsed that is 4 invocations.
IntervalDue == pl.intervalId # Null /\ pl.intervalId <= now

C18_OncePerDelay ==
    (pl.called /\ ~pl.cancelled) =>
        /\ Len(pollLog) = ((now - pl.callTime) \div pl.delay) - (IF IntervalDue THEN 1 ELSE 0)
        /\ \A k \in DOMAIN pollLog : pollLog[k] = pl.callTime + k * pl.delay
        /\ (pl.delay = 5 /\ now = pl.callTime + 22) => Len(pollLog) = 4

\* poll(cb, 5) has been running for 22 time units.
C18_Witness ==
    /\ pl.called
    /\ ~pl.cancelled
    /\ pl.delay = 5
    /\ now = pl.callTime + 22
    /\ Len(pollLog) = 4

\* C19: poll: once the cancel function has been invoked the callback is never
\* invoked again, not even for an invocation that was due at that instant.
NoPollAfterCancel == pl.cancelled => pollLog' = pollLog

C19_CancelStopsPolling == [][NoPollAfterCancel]_vars

\* The cancel came at an instant at which an invocation was due, and time
\* has gone on since.
C19_Witness ==
    /\ pl.cancelled
    /\ pl.dueAtCancel
    /\ now > pl.callTime + (Len(pollLog) + 1) * pl.delay

\* C20: debounce, immediate = false: a call of the wrapper runs nothing and
\* re-arms the timer for wait from now; func runs only wait after the last
\* call; and after a burst of 5 calls with gaps of wait/2 func has run exactly
\* once, wait after the last call.
Last(seq) == seq[Len(seq)]

CallResetsTimer ==
    (db.made /\ ~db.immediate /\ db'.calls # db.calls) =>
        /\ db'.timeout = now + db.wait
        /\ dbLog' = dbLog

RunsOnlyAfterQuiet ==
    (db.made /\ ~db.immediate /\ dbLog' # dbLog) =>
        /\ Len(dbLog') = Len(dbLog) + 1
        /\ db.calls # <<>>
        /\ db'.calls = db.calls
        /\ now = Last(db.calls) + db.wait

Burst ==
    /\ db.made
    /\ Len(db.calls) = 5
    /\ \A i \in 2..5 : db.calls[i] = db.calls[i - 1] + (db.wait \div 2)

BurstRunsOnce ==
    (Burst /\ ~db.immediate /\ now > db.calls[5] + db.wait) =>
        /\ Len(dbLog) = 1
        /\ dbLog[1].t = db.calls[5] + db.wait

C20_DebounceTrailing ==
    [][CallResetsTimer]_vars /\ [][RunsOnlyAfterQuiet]_vars /\ []BurstRunsOnce

\* A burst of 5 calls with gaps of wait/2, and more than wait has passed.
C20_Witness ==
    /\ Burst
    /\ ~db.immediate
    /\ now > db.calls[5] + db.wait
    /\ Len(dbLog) = 1

\* C21: debounce, immediate = true: a call made while no timer is pending runs
\* func at once with its own arguments; a call made while one is pending runs
\* nothing; the timer runs nothing when it fires; and after a burst of 5 calls
\* followed by silence func has run exactly once, at the first call.
LeadingCall ==
    (db.made /\ db.immediate /\ db'.calls # db.calls) =>
        dbLog' = IF db.timeout = Null
                 THEN Append(dbLog, FuncRun(Len(db.calls) + 1, TRUE))
                 ELSE dbLog

TrailingSkipped ==
    (db.made /\ db.immediate /\ db'.calls = db.calls) => dbLog' = dbLog

BurstRunsFirst ==
    (Burst /\ db.immediate /\ now > db.calls[5] + db.wait) =>
        /\ db.timeout = Null
        /\ dbLog = <<[t |-> db.calls[1], arg |-> 1, leading |-> TRUE]>>

C21_DebounceLeading ==
    [][LeadingCall]_vars /\ [][TrailingSkipped]_vars /\ []BurstRunsFirst

\* A burst of 5 calls in immediate mode, and the trailing timer has fired.
C21_Witness ==
    /\ Burst
    /\ db.immediate
    /\ now > db.calls[5] + db.wait
    /\ db.timeout = Null
    /\ Len(dbLog) = 1

\* C22: debounce: a run of func gets the arguments of the most recent call of
\* the wrapper (calls pass their number: the number of calls made so far).
RunGetsLatestArgs ==
    (db.made /\ dbLog' # dbLog) =>
        /\ Len(dbLog') = Len(dbLog) + 1
        /\ Last(dbLog').arg = Len(db'.calls)

C22_LatestArguments == [][RunGetsLatestArgs]_vars

\* In non-immediate mode func has run with the arguments of a call that came
\* less than wait after the one before it.
C22_Witness ==
    /\ db.made
    /\ ~db.immediate
    /\ dbLog # <<>>
    /\ Last(dbLog).arg >= 2
    /\ db.calls[Last(dbLog).arg] > db.calls[Last(dbLog).arg - 1]
    /\ db.calls[Last(dbLog).arg] < db.calls[Last(dbLog).arg - 1] + db.wait

\* C23: throttle: a call made while no window is open runs func at once and
\* opens a window that lasts wait; a call made while the window is open runs
\* nothing, then or later; nothing but a call runs func; and once wait has
\* elapsed since the window opened it is closed, so the next call runs func.
ThrottledCall ==
    (th.made /\ th'.calls # th.calls) =>
        IF ~th.inThrottle
        THEN /\ thLog' = Append(thLog, [t |-> now, arg |-> Len(th.calls) + 1])
             /\ th'.inThrottle
             /\ th'.timer = now + th.wait
        ELSE /\ thLog' = thLog
             /\ th'.inThrottle
             /\ th'.timer = th.timer

NoTrailingRun == (th.made /\ th'.calls = th.calls) => thLog' = thLog

WindowLastsWait ==
    th.made =>
        /\ th.inThrottle <=> th.timer # Null
        /\ th.inThrottle => (th.timer = Last(thLog).t + th.wait /\ now <= th.timer)

C23_ThrottleWindows ==
    [][ThrottledCall]_vars /\ [][NoTrailingRun]_vars /\ []WindowLastsWait

\* Two windows have been opened, and calls have been dropped.
C23_Witness ==
    /\ th.made
    /\ Len(thLog) = 2
    /\ Len(th.calls) >= 4
    /\ ~th.inThrottle

\* C24 as stated: 5 calls, each wait/2 after the one before, run func exactly
\* once, for the first call; a 6th call made after wait has elapsed since the
\* 5th runs func a second time.
C24_BurstApartRunsOnce ==
    (/\ th.made
     /\ Len(th.calls) >= 5
     /\ \A i \in 2..5 : th.calls[i] = th.calls[i - 1] + (th.wait \div 2)) =>
        /\ Len(th.calls) = 5 => thLog = <<[t |-> th.calls[1], arg |-> 1]>>
        /\ (Len(th.calls) = 6 /\ th.calls[6] > th.calls[5] + th.wait) =>
              thLog = <<[t |-> th.calls[1], arg |-> 1], [t |-> th.calls[6], arg |-> 6]>>

\* C24 as amended: 5 calls all made before wait has elapsed since the first
\* one run func exactly once, for the first call; a 6th call made after wait
\* has elapsed since the first call runs func a second time.
C24_BurstInWindowRunsOnce ==
    (/\ th.made
     /\ Len(th.calls) >= 5
     /\ th.calls[5] < th.calls[1] + th.wait) =>
        /\ Len(th.calls) = 5 => thLog = <<[t |-> th.calls[1], arg |-> 1]>>
        /\ (Len(th.calls) = 6 /\ th.calls[6] > th.calls[1] + th.wait) =>
              thLog = <<[t |-> th.calls[1], arg |-> 1], [t |-> th.calls[6], arg |-> 6]>>

\* Five calls inside the first window, not all at one instant, and a 6th
\* after the window.
C24_Witness ==
    /\ th.made
    /\ Len(th.calls) = 6
    /\ th.calls[5] < th.calls[1] + th.wait
    /\ th.calls[5] > th.calls[1]
    /\ th.calls[6] > th.calls[1] + th.wait
    /\ Len(thLog) = 2

\* C25: two wrappers made by separate calls of debounce or throttle: whatever
\* calls of B are interleaved, func of A runs when and with what it runs in
\* the run in which B is never called, and A's closure is in the same state.
C25_WrappersIndependent ==
    pair.made =>
        /\ pair.runs["A"] = pair.runs["Solo"]
        /\ pair.inThrottle["A"] = pair.inThrottle["Solo"]
        /\ (pair.timeout["A"] = Null) = (pair.timeout["Solo"] = Null)

\* A and B are of the same kind, both have been called twice and both have
\* run their func.
C25_Witness ==
    /\ pair.made
    /\ pair.kind["A"] = pair.kind["B"]
    /\ pair.calls["A"] = MaxPairCalls
    /\ pair.calls["B"] = MaxPairCalls
    /\ pair.runs["A"] # <<>>
    /\ pair.runs["B"] # <<>>

\* C26: waitUntil: condition is called at the call and then once per interval
\* for as long as it has returned falsy; when it returns truthy the promise is
\* resolved by the one resolve() call made, no timer is left, and condition is
\* never called again.
ChecksEachInterval ==
    wu.called =>
        /\ \A k \in DOMAIN wu.checks :
              /\ wu.checks[k].t = wu.checks[1].t + (k - 1) * wu.interval
              /\ k < Len(wu.checks) => wu.checks[k].outcome = "false"
        /\ Last(wu.checks).outcome = "false" =>
              /\ wu.state = "pending"
              /\ wu.timer = Last(wu.checks).t + wu.interval
              /\ now <= wu.timer

ResolvesOnce ==
    (wu.called /\ Last(wu.checks).outcome = "true") =>
        /\ wu.state = "resolved"
        /\ wu.nResolve = 1
        /\ wu.nReject = 0
        /\ wu.timer = Null

DoneAfterResolve == wu.state = "resolved" => wu' = wu

C26_WaitUntilResolves ==
    []ChecksEachInterval /\ []ResolvesOnce /\ [][DoneAfterResolve]_vars

\* condition was truthy on its third call or later, and time has gone on.
C26_Witness ==
    /\ wu.state = "resolved"
    /\ Len(wu.checks) >= 3
    /\ now > Last(wu.checks).t

\* C27: waitUntil: when condition throws, on the first check or a later one,
\* the promise is rejected with the error thrown by the one reject() call
\* made, no timer is left, condition is never called again and the promise is
\* never resolved.
RejectsOnce ==
    (wu.called /\ Last(wu.checks).outcome \in Errors) =>
        /\ wu.state = "rejected"
        /\ wu.error = Last(wu.checks).outcome
        /\ wu.nReject = 1
        /\ wu.nResolve = 0
        /\ wu.timer = Null

DoneAfterReject == wu.state = "rejected" => wu' = wu

C27_WaitUntilRejects == []RejectsOnce /\ [][DoneAfterReject]_vars

\* condition threw E2 on a check after the first, and time has gone on.
C27_Witness ==
    /\ wu.state = "rejected"
    /\ wu.error = "E2"
    /\ Len(wu.checks) >= 2
    /\ now > Last(wu.checks).t

\* C28: waitForElement and waitForElements: when a match exists at the call
\* (or waitForElement is handed an element) the wait is resolved by the call
\* step itself, with that element or those elements, at the same time and
\* with no batch delivered, and no observer is registered then or later.
ResolvedInCall ==
    /\ (~wf.called /\ wf'.called /\ MatchAtCall(wf'.sel)) =>
           /\ wf'.state = "resolved"
           /\ wf'.el = IF wf'.sel # Null THEN wf'.sel
                       ELSE Head(QuerySelectorAll(parent, matches, Body))
           /\ now' = now
    /\ (~wfs.called /\ wfs'.called /\ MatchesAtCall(wfs'.root)) =>
           /\ wfs'.state = "resolved"
           /\ wfs'.els = QuerySelectorAll(parent, matches, wfs'.root)
           /\ now' = now

NoWatchOnMatchAtCall ==
    /\ (wf.called /\ wf.atCall) =>
           /\ wf.state = "resolved"
           /\ ~wf.connected /\ wf.nObserve = 0
           /\ wf.batches = 0 /\ wf.q = <<>>
    /\ (wfs.called /\ wfs.atCall) =>
           /\ wfs.state = "resolved"
           /\ ~wfs.connected /\ wfs.nObserve = 0
           /\ wfs.batches = 0 /\ wfs.q = <<>>

C28_ResolvesWithinCall == []NoWatchOnMatchAtCall /\ [][ResolvedInCall]_vars

\* Both waits found their match at the call, waitForElements under an element
\* root, and the document was changed afterwards.
C28_Witness ==
    /\ wf.called /\ wf.atCall /\ wf.sel = Null
    /\ wfs.called /\ wfs.atCall /\ wfs.root \in Elems
    /\ nRec > wf.seen /\ nRec > wfs.seen

\* C29: waitForElement with no match at the call: a batch delivered while the
\* wait is pending resolves it exactly when the selector matches then, with
\* the first match in document order, and disconnects the observer; the wait
\* resolves at most once, its element never changes afterwards, and a
\* resolved wait has no connected observer and no queued record.
FirstMatchingBatch ==
    (wf.state = "pending" /\ wf'.batches = wf.batches + 1) =>
        IF QuerySelectorAll(parent, matches, Body) # <<>>
        THEN /\ wf'.state = "resolved"
             /\ wf'.el = Head(QuerySelectorAll(parent, matches, Body))
             /\ ~wf'.connected
        ELSE /\ wf'.state = "pending"
             /\ wf'.connected

CompletesAtMostOnce ==
    (wf.called /\ ~wf.atCall) =>
        /\ wf.nResolve <= 1
        /\ wf.nObserve = 1
        /\ (wf.state = "resolved") = (wf.nResolve = 1)
        /\ (wf.state = "resolved") => (wf.el \in Elems /\ ~wf.connected /\ wf.q = <<>>)
        /\ (wf.state = "pending") => (wf.el = Null /\ wf.connected)

StaysCompleted == wf.state = "resolved" => wf' = wf

C29_ResolvesOnFirstMatchingBatch ==
    []CompletesAtMostOnce /\ [][FirstMatchingBatch /\ StaysCompleted]_vars

\* The wait saw a batch without a match, then resolved on a batch at which two
\* elements matched, with the first of them.
C29_Witness ==
    /\ wf.called /\ ~wf.atCall
    /\ wf.state = "resolved"
    /\ wf.batches >= 2
    /\ wf.seen = nRec
    /\ Len(QuerySelectorAll(parent, matches, Body)) >= 2
    /\ wf.el = Head(QuerySelectorAll(parent, matches, Body))

\* C30: waitForElements(selector, root): the step that resolves the wait, the
\* call or the first delivered batch at which the query under root is not
\* empty, resolves it with all the elements matching under root at that
\* moment, in document order; it resolves at most once and never with an
\* empty list, the resolved wait has no observer, and nothing that matches
\* later changes what was reported.
ResolvesWithAll ==
    /\ (wfs.state # "resolved" /\ wfs'.state = "resolved") =>
           /\ wfs'.els = QuerySelectorAll(parent, matches, wfs'.root)
           /\ wfs'.els # <<>>
           /\ wfs'.nResolve = 1
    /\ (wfs.state = "pending" /\ wfs'.batches = wfs.batches + 1) =>
           (wfs'.state = "resolved") = (QuerySelectorAll(parent, matches, wfs.root) # <<>>)

ElementsOnce ==
    /\ wfs.nResolve <= 1
    /\ (wfs.state = "resolved") = (wfs.nResolve = 1)
    /\ (wfs.state = "resolved") => (wfs.els # <<>> /\ ~wfs.connected /\ wfs.q = <<>>)
    /\ (wfs.state = "pending") => (wfs.els = <<>> /\ wfs.connected)

ElementsStay == wfs.state = "resolved" => wfs' = wfs

C30_ResolvesOnceWithAllMatches ==
    []ElementsOnce /\ [][ResolvesWithAll /\ ElementsStay]_vars

\* The wait resolved on a batch with two elements, and a further element
\* under the root matches now.
C30_Witness ==
    /\ wfs.called /\ ~wfs.atCall
    /\ wfs.state = "resolved"
    /\ Len(wfs.els) >= 2
    /\ Len(QuerySelectorAll(parent, matches, wfs.root)) > Len(wfs.els)

\* C31: waitForElement and waitForElements: however long it lasts, a wait is
\* pending or resolved, never rejected; a pending wait has found no match in
\* any batch it was handed and reports nothing, a resolved wait reports an
\* element (a non-empty list of elements); neither ever arms a timer.
PendingOrResolved ==
    /\ wf.called => wf.state \in {"pending", "resolved"}
    /\ (wf.state = "pending") => (wf.el = Null /\ wf.nResolve = 0)
    /\ (wf.state = "resolved") => wf.el \in Elems
    /\ wf.nTimers = 0
    /\ wfs.called => wfs.state \in {"pending", "resolved"}
    /\ (wfs.state = "pending") => (wfs.els = <<>> /\ wfs.nResolve = 0)
    /\ (wfs.state = "resolved") => wfs.els # <<>>
    /\ wfs.nTimers = 0

\* Time alone never settles a wait.
TimeSettlesNothing == now' # now => (wf' = wf /\ wfs' = wfs)

C31_WaitersNeverTimeOut == []PendingOrResolved /\ [][TimeSettlesNothing]_vars

\* Both waits are still pending at the end of time, each after a batch
\* without a match.
C31_Witness ==
    /\ wf.state = "pending" /\ wf.batches >= 1
    /\ wfs.state = "pending" /\ wfs.batches >= 1
    /\ now = MaxWaitTime

\* C32: observeSelector called with once: true invokes the callback at most
\* once over the life of the call: no step invokes it twice, and no step
\* invokes it after a step that did.
OnceInOneStep == os.given.once => Len(lastCalls) <= 1

OnceNeverAgain == (os.given.once /\ everCalled) => lastCalls' = <<>>

C32_OnceStopsAfterFirst == []OnceInOneStep /\ [][OnceNeverAgain]_vars

\* C33: observeSelector and observeSelectors: without a mutations option the
\* observer options have childList, attributes and subtree on and
\* characterData, attributeOldValue and characterDataOldValue off; with a
\* mutations list each of the six flags is on exactly when its name is in the
\* list; without an attributeFilter option no attributeFilter is set.
OptionsAsGiven(given, opts) ==
    /\ ~given.hasMutations =>
           /\ opts.childList /\ opts.attributes /\ opts.subtree
           /\ ~opts.characterData
           /\ ~opts.attributeOldValue /\ ~opts.characterDataOldValue
    /\ given.hasMutations =>
           \A f \in MutationNames : opts[f] = (f \in given.mutations)
    /\ given.filter = "none" => ~opts.attributeFilter

C33_ObserverOptions ==
    /\ os.called => OptionsAsGiven(os.given, os.opts)
    /\ oss.called => OptionsAsGiven(oss.given, oss.opts)

\* observeSelector was called with a list of two names off by default,
\* observeSelectors with no mutations option.
C33_Witness ==
    /\ os.called /\ os.given.hasMutations
    /\ os.given.mutations = {"characterData", "attributeOldValue"}
    /\ oss.called /\ ~oss.given.hasMutations /\ oss.given.filter = "none"

\* C34: observeSelectors: in every state after stopObserving has run the
\* table of observers is empty and no per-element observer is connected, and
\* no step taken after it creates a per-element observer, the delivery of a
\* rootObserver batch queued before the stop included.
TornDown ==
    oss.cancelled =>
        /\ Tracked(oss) = {}
        /\ \A i \in 1..Len(watches) : ~watches[i].connected

NoWatchAfterCancel == oss.cancelled => Len(watches') = Len(watches)

C34_StaysTornDown == []TornDown /\ [][NoWatchAfterCancel]_vars

\* C35: observeSelector: over the life of one call startObserving makes at
\* most one MutationObserver and arms at most one timer; once an element is
\* bound it stays the bound element in every later state, whatever happens to
\* it in the document, and every invocation of the callback is handed it.
OneWatchOneTimer ==
    /\ os.nObservers <= 1
    /\ os.nTimers <= 1
    /\ os.nObservers = 1 => os.el \in Elems
    /\ os.nTimers = 1 => os.nObservers = 1
    /\ \A i \in 1..Len(lastCalls) : lastCalls[i].el = os.el

NeverRebinds == os.el # Null => os'.el = os.el

OneTimerPending ==
    /\ Cardinality(db.timers) <= 1
    /\ db.timers = IF db.timeout = Null THEN {} ELSE {DbTimer(db.timeout, db.args)}

OneTrailingRunPerBurst ==
    \A i, j \in 1..Len(dbLog) :
        (i < j /\ ~dbLog[i].leading /\ ~dbLog[j].leading) =>
            /\ dbLog[j].arg > dbLog[i].arg
            /\ db.calls[dbLog[i].arg + 1] >= dbLog[i].t

C36_OneTimerPending == OneTimerPending /\ OneTrailingRunPerBurst

\* Two bursts of two calls each have been served by one trailing run each.
C36_Witness ==
    /\ ~db.immediate
    /\ Len(db.calls) = 4
    /\ Len(dbLog) = 2
    /\ dbLog[1].arg = 2
    /\ dbLog[2].arg = 4

\* C37: throttle: a call whose func threw was made with no window open and
\* leaves none open and no timer armed; as long as it is the latest call the
\* wrapper stays open, and the call that follows it invokes func, with its
\* own arguments.
ThrowOpensNoWindow ==
    (th'.calls # th.calls /\ Len(th'.calls) \in th'.thrown) =>
        /\ ~th.inThrottle
        /\ ~th'.inThrottle
        /\ th'.timer = Null
        /\ Len(thLog') = Len(thLog) + 1

OpenAfterThrow ==
    (th.calls # <<>> /\ Len(th.calls) \in th.thrown) =>
        (~th.inThrottle /\ th.timer = Null)

NextCallRunsFunc ==
    (th'.calls # th.calls /\ Len(th.calls) \in th.thrown) =>
        /\ Len(thLog') = Len(thLog) + 1
        /\ Last(thLog').arg = Len(th'.calls)
        /\ Last(thLog').t = now

C37_ThrowOpensNoWindow ==
    []OpenAfterThrow /\ [][ThrowOpensNoWindow /\ NextCallRunsFunc]_vars

\* The first call threw, the second, made at the same time, ran func and
\* opened the window.
C37_Witness ==
    /\ Len(th.calls) = 2
    /\ th.calls[1] = th.calls[2]
    /\ th.thrown = {1}
    /\ Len(thLog) = 2
    /\ th.inThrottle

\* C38: waitUntil: the call itself makes the first check of condition, at
\* the time of the call; when that check is truthy the wait never calls
\* setTimeout; and the wait never has more than one timer pending, the timer
\* armed by its latest check.
FirstCheckInCall ==
    (~wu.called /\ wu'.called) =>
        /\ Len(wu'.checks) = 1
        /\ wu'.checks[1].t = now
        /\ now' = now

NoTimerWhenTruthyAtOnce ==
    (wu.called /\ wu.checks[1].outcome = "true") =>
        (wu.nTimers = 0 /\ wu.pending = <<>>)

OneCheckTimer ==
    /\ Len(wu.pending) <= 1
    /\ wu.pending = IF wu.timer = Null THEN <<>> ELSE <<wu.timer>>
    /\ wu.pending # <<>> => Last(wu.checks).outcome = "false"

C38_OneCheckTimer ==
    []NoTimerWhenTruthyAtOnce /\ []OneCheckTimer /\ [][FirstCheckInCall]_vars

\* condition was truthy at the call, and time has gone on to the end.
C38_Witness ==
    /\ wu.called
    /\ wu.checks[1].outcome = "true"
    /\ now = MaxWuTime

\* C39: trackScrollDepth: over any sequence of scroll events the callback is
\* invoked at most once per threshold, only with a depth at or above the
\* threshold, and never once the returned stop function has been invoked.
OncePerThreshold ==
    \A i, j \in 1..Len(sd.log) : i # j => sd.log[i].threshold # sd.log[j].threshold

OnlyAtOrAboveThreshold ==
    \A i \in 1..Len(sd.log) :
        /\ sd.log[i].depth.kind # "NaN"
        /\ sd.log[i].depth.kind = "number" => sd.log[i].depth.v >= sd.log[i].threshold

NeverAfterStopTracking == \A i \in 1..Len(sd.log) : ~sd.log[i].afterStop

C39_ScrollDepthOncePerThreshold ==
    OncePerThreshold /\ OnlyAtOrAboveThreshold /\ NeverAfterStopTracking

====
